---- MODULE Spec2Model ----
(***************************************************************************)
(* Customer/order REST API (SebbieMzingKe/savannah-api).                   *)
(*                                                                         *)
(* Spec      : the order-creation workflow (handlers/order.go CreateOrder  *)
(*             and its notification goroutine) running concurrently with   *)
(*             DeleteCustomer (internal/handlers/customer.go) over one     *)
(*             shared store.                                               *)
(* FairSpec  : Spec with the fairness the Go scheduler gives to runnable   *)
(*             goroutines.                                                 *)
(* AuthSpec  : AuthMiddleware (internal/middleware/auth.go) applied to     *)
(*             requests drawn from a bounded set of headers and tokens.    *)
(* VerifySpec: AuthSpec with the token of the request given to            *)
(*             AuthHandler.ValidateToken as well.                          *)
(* LoginSpec : AuthHandler.Login and AuthHandler.ValidateToken of the same *)
(*             file, called any number of times as the clock advances.     *)
(* CallbackSpec : AuthHandler.Callback, one attempt through its calls to   *)
(*             the identity provider.                                      *)
(* CancelSpec: Spec with CreateOrder requests whose context is cancelled   *)
(*             under way.                                                  *)
(* RouteSpec : one request through the routes registered by main.          *)
(* CustomerSpec : CreateCustomer requests served concurrently.             *)
(* FormatSpec: AuthSpec with the AuthMiddleware of new/another_new.go as   *)
(*             a second function that may serve the request.               *)
(* HandlersSpec : Login and ValidateToken of handlers.AuthHandler          *)
(*             (internal/handlers/auth.go) over more than a day.           *)
(* TimeoutSpec : requests under TimeoutMiddleware.                         *)
(* RateSpec  : requests of one client under RateLimitMiddleware.           *)
(***************************************************************************)
EXTENDS Integers, Sequences, FiniteSets, TLC

\* ------------------------------------------------------------------ bounds
\* Number of CreateOrder requests that may be in flight.
MaxOrderReq == 1
\* Number of customer ids the store may hold.
MaxCust == 1

\* Latest clock value (seconds) of the authentication runs.
MaxTime == 3
\* Number of Login calls in one run.
MaxLogins == 2

\* Number of requests under RateLimitMiddleware that may be in flight.
MaxRateReq == 2
\* Latest clock value (seconds) of the rate limiter's runs.
MaxRateClock == 60
\* Number of requests under TimeoutMiddleware that may be in flight.
MaxTimeoutReq == 2
\* Number of CreateCustomer requests that may be in flight.
MaxCreateReq == 2

OrderReqs == 1..MaxOrderReq
CreateReqs == 1..MaxCreateReq
TimeoutReqs == 1..MaxTimeoutReq
RateReqs == 1..MaxRateReq
CustIds   == 1..MaxCust

\* ------------------------------------------------------------ order store
VARIABLES customers, orders
\* CreateOrder: one handler invocation per slot of OrderReqs
VARIABLES pc, req, cust, ord, resp
\* the goroutine started by `go h.sendOrderNotification(customer, order)`
VARIABLES sms, smsArgs, smsCalls
\* DeleteCustomer: one handler invocation
VARIABLES delPc, delId, delResp

\* AuthMiddleware: the process environment, the clock, one request and what
\* the gin chain did with it
VARIABLES jwtSecret, now, authHeader, authPc, authResp, authCtx, verifiedAt,
          handlerRan, handlerRead

\* the request context of a CreateOrder request: TRUE once it is cancelled
\* (the client went away, or the deadline set by TimeoutMiddleware passed)
VARIABLES ctxDone

\* one request through the engine's routes: the request, where its chain
\* of handlers stands (gin's c.index), and the route handler that ran
VARIABLES rtReq, rtPc, rtIndex, rtServed

\* the customers table as CreateCustomer sees it, and one CreateCustomer
\* invocation per slot of CreateReqs
VARIABLES custRows, ccPc, ccReq, ccResp

\* TimeoutMiddleware, per request: the middleware goroutine, the goroutine
\* it starts, whether ctx.Done() is closed, whether c.Abort() was called,
\* and what was written to the response
VARIABLES tmPc, goPc, tmDeadline, tmAborted, tmWrites

\* RateLimitMiddleware: client.requests of the one client, the wall clock,
\* and per request its position, the time it read, its local validRequests
\* and the status it got (200: the handler ran); rlAdmitted lists the
\* times of the requests let through
VARIABLES clientRequests, rlAdmitted, rlClock, rlPc, rlNow, rlValid, rlOut

\* AuthHandler: the policy fixed by NewAuthHandler, the latest Login call,
\* the state values Login has put in authorization URLs, the latest
\* ValidateToken call, and one Callback attempt
VARIABLES oidcConfig, loginCount, loginReq, loginResp, issuedStates,
          vtToken, vtOut, cbPc, cbQuery, cbTrace, cbResp

handlerVars == <<oidcConfig, loginCount, loginReq, loginResp, issuedStates,
                 vtToken, vtOut, cbPc, cbQuery, cbTrace, cbResp>>

authVars == <<jwtSecret, now, authHeader, authPc, authResp, authCtx,
              verifiedAt, handlerRan, handlerRead>>

cancelVars == <<ctxDone>>

routeVars == <<rtReq, rtPc, rtIndex, rtServed>>

customerVars == <<custRows, ccPc, ccReq, ccResp>>

timeoutVars == <<tmPc, goPc, tmDeadline, tmAborted, tmWrites>>

rateVars == <<clientRequests, rlAdmitted, rlClock, rlPc, rlNow, rlValid,
              rlOut>>

extraVars == <<cancelVars, routeVars, customerVars, timeoutVars, rateVars>>

orderVars == <<customers, orders, pc, req, cust, ord, resp, sms, smsArgs,
               smsCalls, delPc, delId, delResp>>

\* ----------------------------------------------------------------- models
\* models.Customer: the fields the workflow reads. DeletedAt is gorm's
\* soft-delete column; it is `json:"-"` and never part of a response.
\* the customers of the handlers' test fixtures
CustomerNames  == <<"Sebbie Chanzu", "Sebbie Mzing", "Sebbie Evayo">>

CustomerPhones == <<"+254740827150", "+254111768132", "+254740834150">>

CustomerData(i) == [id |-> i, name |-> CustomerNames[i], phone |-> CustomerPhones[i]]

ZeroCustomer == [id |-> 0, name |-> "", phone |-> ""]

LiveRow(i) == [deleted |-> FALSE, data |-> CustomerData(i)]

\* models.CreateOrderRequest as decoded from the JSON body; time 0 is the
\* zero time.Time, customer_id 0 the zero uint (field absent).
Items   == {"", "laptop"}
Amounts == {-1, 0, 1}
Times   == {0, 1}

Malformed == [malformed |-> TRUE]

\* an id no customer row has (the tests use 999)
AbsentId == MaxCust + 1

BodyFields == [item : Items, amount : Amounts, time : Times,
               customer_id : 0..AbsentId]

Bodies == {Malformed} \cup
          {[malformed |-> FALSE] @@ b : b \in BodyFields}

ZeroRequest == [malformed |-> FALSE, item |-> "", amount |-> 0, time |-> 0,
                customer_id |-> 0]

ZeroOrder == [id |-> 0, item |-> "", amount |-> 0, time |-> 0,
              customer_id |-> 0, customer |-> ZeroCustomer]

NoResp == [status |-> 0, error |-> "", message |-> "", order |-> ZeroOrder]

ErrorResponse(status, error, message) ==
    [status |-> status, error |-> error, message |-> message,
     order |-> ZeroOrder]

\* c.ShouldBindJSON(&req): JSON decoding followed by the validator run over
\* the binding tags of CreateOrderRequest (required / required,min=0).
ShouldBindJSON(body) ==
    /\ ~body.malformed
    /\ body.item # ""
    /\ body.amount # 0 /\ body.amount >= 0
    /\ body.time # 0
    /\ body.customer_id # 0

\* the handler's own check after binding
InvalidFields(r) == r.item = "" \/ r.amount <= 0 \/ r.customer_id = 0

\* gorm First(&customer, id): rows with deleted_at set are not found
FindCustomer(id) ==
    IF id \in CustIds /\ ~customers[id].deleted
    THEN customers[id].data
    ELSE ZeroCustomer

Found(id) == FindCustomer(id) # ZeroCustomer

\* ------------------------------------------------------------------- Init
OrderInit ==
    /\ customers = [i \in CustIds |-> LiveRow(i)]
    /\ orders = <<>>
    /\ pc = [r \in OrderReqs |-> "idle"]
    /\ req = [r \in OrderReqs |-> ZeroRequest]
    /\ cust = [r \in OrderReqs |-> ZeroCustomer]
    /\ ord = [r \in OrderReqs |-> ZeroOrder]
    /\ resp = [r \in OrderReqs |-> NoResp]
    /\ sms = [r \in OrderReqs |-> "none"]
    /\ smsArgs = [r \in OrderReqs |-> [customer |-> ZeroCustomer, order |-> ZeroOrder]]
    /\ smsCalls = [r \in OrderReqs |-> <<>>]
    /\ delPc = "idle"
    /\ delId = 0
    /\ delResp = 0

\* ------------------------------------------------------------ CreateOrder
\* Lines 28-46: bind the body, validate it; a rejected request is answered
\* 400 before any store access.
ReceiveOrder(r, body) ==
    /\ pc[r] = "idle"
    /\ \A q \in OrderReqs : q < r => pc[q] # "idle"
    /\ req' = [req EXCEPT ![r] = IF body.malformed THEN ZeroRequest ELSE body]
    /\ IF ~ShouldBindJSON(body)
       THEN /\ resp' = [resp EXCEPT ![r] =
                           ErrorResponse(400, "invalid request", "binding")]
            /\ pc' = [pc EXCEPT ![r] = "done"]
       ELSE IF InvalidFields(body)
       THEN /\ resp' = [resp EXCEPT ![r] =
                           ErrorResponse(400, "invalid request",
                                         "missing or invalid fields")]
            /\ pc' = [pc EXCEPT ![r] = "done"]
       ELSE /\ resp' = resp
            /\ pc' = [pc EXCEPT ![r] = "lookup"]
    /\ UNCHANGED <<authVars, handlerVars, extraVars>>
    /\ UNCHANGED <<customers, orders, cust, ord, sms, smsArgs, smsCalls,
                   delPc, delId, delResp>>

\* Variant: the result of the lookup is not checked, the handler goes on to
\* the write with the zero Customer.
LookupCustomerUnchecked(r) ==
    /\ pc[r] = "lookup"
    /\ cust' = [cust EXCEPT ![r] = FindCustomer(req[r].customer_id)]
    /\ pc' = [pc EXCEPT ![r] = "write"]
    /\ UNCHANGED <<authVars, handlerVars, extraVars>>
    /\ UNCHANGED <<customers, orders, req, ord, resp, sms, smsArgs, smsCalls,
                   delPc, delId, delResp>>

\* Lines 48-65: h.db.First(&customer, req.CustomerID)
LookupCustomer(r) ==
    /\ pc[r] = "lookup"
    /\ \/ \* the query fails with an I/O error
          /\ resp' = [resp EXCEPT ![r] =
                         ErrorResponse(500, "database error",
                                       "failed to verify customer")]
          /\ pc' = [pc EXCEPT ![r] = "done"]
          /\ cust' = cust
       \/ /\ ~Found(req[r].customer_id)
          /\ resp' = [resp EXCEPT ![r] =
                         ErrorResponse(404, "customer not found",
                                       "customer not found")]
          /\ pc' = [pc EXCEPT ![r] = "done"]
          /\ cust' = cust
       \/ /\ Found(req[r].customer_id)
          /\ cust' = [cust EXCEPT ![r] = FindCustomer(req[r].customer_id)]
          /\ pc' = [pc EXCEPT ![r] = "write"]
          /\ resp' = resp
    /\ UNCHANGED <<authVars, handlerVars, extraVars>>
    /\ UNCHANGED <<customers, orders, req, ord, sms, smsArgs, smsCalls,
                   delPc, delId, delResp>>

\* the row h.db.Create(&order) inserts; createdBy is a ghost field naming
\* the request that wrote the row
NewOrderRow(r) ==
    [id |-> Len(orders) + 1, item |-> req[r].item, amount |-> req[r].amount,
     time |-> req[r].time, customer_id |-> req[r].customer_id,
     createdBy |-> r]

\* Variant: a failure reported after the row was inserted is answered 500
\* with the row left in place.
WriteOrderKeepsRowOnError(r) ==
    /\ pc[r] = "write"
    /\ LET row == NewOrderRow(r)
           o == [id |-> row.id, item |-> row.item, amount |-> row.amount,
                 time |-> row.time, customer_id |-> row.customer_id,
                 customer |-> cust[r]]
       IN \/ /\ orders' = Append(orders, row)
             /\ resp' = [resp EXCEPT ![r] =
                            ErrorResponse(500, "database error",
                                          "failed to create order")]
             /\ pc' = [pc EXCEPT ![r] = "done"]
             /\ UNCHANGED <<ord, sms, smsArgs>>
          \/ /\ orders' = Append(orders, row)
             /\ ord' = [ord EXCEPT ![r] = o]
             /\ sms' = [sms EXCEPT ![r] = "spawned"]
             /\ smsArgs' = [smsArgs EXCEPT ![r] =
                               [customer |-> cust[r], order |-> o]]
             /\ pc' = [pc EXCEPT ![r] = "respond"]
             /\ resp' = resp
    /\ UNCHANGED <<authVars, handlerVars, extraVars>>
    /\ UNCHANGED <<customers, req, cust, smsCalls, delPc, delId, delResp>>

\* Variant: the goroutine is started before the result of the insert is
\* checked, so a failed insert notifies too.
WriteOrderNotifiesFirst(r) ==
    /\ pc[r] = "write"
    /\ LET row == NewOrderRow(r)
           o == [id |-> row.id, item |-> row.item, amount |-> row.amount,
                 time |-> row.time, customer_id |-> row.customer_id,
                 customer |-> cust[r]]
       IN \/ /\ resp' = [resp EXCEPT ![r] =
                            ErrorResponse(500, "database error",
                                          "failed to create order")]
             /\ pc' = [pc EXCEPT ![r] = "done"]
             /\ sms' = [sms EXCEPT ![r] = "spawned"]
             /\ smsArgs' = [smsArgs EXCEPT ![r] =
                               [customer |-> cust[r], order |-> ZeroOrder]]
             /\ UNCHANGED <<orders, ord>>
          \/ /\ orders' = Append(orders, row)
             /\ ord' = [ord EXCEPT ![r] = o]
             /\ sms' = [sms EXCEPT ![r] = "spawned"]
             /\ smsArgs' = [smsArgs EXCEPT ![r] =
                               [customer |-> cust[r], order |-> o]]
             /\ pc' = [pc EXCEPT ![r] = "respond"]
             /\ resp' = resp
    /\ UNCHANGED <<authVars, handlerVars, extraVars>>
    /\ UNCHANGED <<customers, req, cust, smsCalls, delPc, delId, delResp>>

\* Variant: `order.Customer = customer` is left out, the response carries
\* the zero Customer.
WriteOrderNoEmbed(r) ==
    /\ pc[r] = "write"
    /\ LET row == NewOrderRow(r)
           o == [id |-> row.id, item |-> row.item, amount |-> row.amount,
                 time |-> row.time, customer_id |-> row.customer_id,
                 customer |-> ZeroCustomer]
       IN /\ orders' = Append(orders, row)
          /\ ord' = [ord EXCEPT ![r] = o]
          /\ sms' = [sms EXCEPT ![r] = "spawned"]
          /\ smsArgs' = [smsArgs EXCEPT ![r] =
                            [customer |-> cust[r], order |-> o]]
          /\ pc' = [pc EXCEPT ![r] = "respond"]
    /\ UNCHANGED <<authVars, handlerVars, extraVars>>
    /\ UNCHANGED <<customers, req, cust, resp, smsCalls, delPc, delId,
                   delResp>>

\* Lines 67-85: build the order, h.db.Create(&order); on success embed the
\* customer read by the lookup and start the notification goroutine.
WriteOrder(r) ==
    /\ pc[r] = "write"
    /\ \/ \* the insert fails: nothing is stored
          /\ resp' = [resp EXCEPT ![r] =
                         ErrorResponse(500, "database error",
                                       "failed to create order")]
          /\ pc' = [pc EXCEPT ![r] = "done"]
          /\ UNCHANGED <<orders, ord, sms, smsArgs>>
       \/ LET row == NewOrderRow(r)
              o == [id |-> row.id, item |-> row.item, amount |-> row.amount,
                    time |-> row.time, customer_id |-> row.customer_id,
                    customer |-> cust[r]]
          IN /\ orders' = Append(orders, row)
             /\ ord' = [ord EXCEPT ![r] = o]
             /\ sms' = [sms EXCEPT ![r] = "spawned"]
             /\ smsArgs' = [smsArgs EXCEPT ![r] =
                               [customer |-> cust[r], order |-> o]]
             /\ pc' = [pc EXCEPT ![r] = "respond"]
             /\ resp' = resp
    /\ UNCHANGED <<authVars, handlerVars, extraVars>>
    /\ UNCHANGED <<customers, req, cust, smsCalls, delPc, delId, delResp>>

\* Variant: the notification is sent inline, the response waits for it.
RespondAfterSMS(r) ==
    /\ pc[r] = "respond"
    /\ sms[r] \in {"sent", "failed"}
    /\ resp' = [resp EXCEPT ![r] =
                   [status |-> 201, error |-> "", message |-> "",
                    order |-> ord[r]]]
    /\ pc' = [pc EXCEPT ![r] = "done"]
    /\ UNCHANGED <<authVars, handlerVars, extraVars>>
    /\ UNCHANGED <<customers, orders, req, cust, ord, sms, smsArgs, smsCalls,
                   delPc, delId, delResp>>

\* Line 87: c.JSON(http.StatusCreated, order)
Respond(r) ==
    /\ pc[r] = "respond"
    /\ resp' = [resp EXCEPT ![r] =
                   [status |-> 201, error |-> "", message |-> "",
                    order |-> ord[r]]]
    /\ pc' = [pc EXCEPT ![r] = "done"]
    /\ UNCHANGED <<authVars, handlerVars, extraVars>>
    /\ UNCHANGED <<customers, orders, req, cust, ord, sms, smsArgs, smsCalls,
                   delPc, delId, delResp>>

\* ------------------------------------------------- sendOrderNotification
\* Line 275: the goroutine calls h.smsService.SendSMS(customer.Phone, message)
SendSMS(r) ==
    /\ sms[r] = "spawned"
    /\ smsCalls' = [smsCalls EXCEPT ![r] =
                       Append(@, smsArgs[r].customer.phone)]
    /\ sms' = [sms EXCEPT ![r] = "sending"]
    /\ UNCHANGED <<authVars, handlerVars, extraVars>>
    /\ UNCHANGED <<customers, orders, pc, req, cust, ord, resp, smsArgs,
                   delPc, delId, delResp>>

\* Variant: a failed send is tried once more.
SendSMSReturnsRetries(r) ==
    /\ sms[r] = "sending"
    /\ \/ sms' = [sms EXCEPT ![r] = "sent"]
       \/ sms' = [sms EXCEPT ![r] =
                    IF Len(smsCalls[r]) < 2 THEN "spawned" ELSE "failed"]
    /\ UNCHANGED <<authVars, handlerVars, extraVars>>
    /\ UNCHANGED <<customers, orders, pc, req, cust, ord, resp, smsArgs,
                   smsCalls, delPc, delId, delResp>>

\* Variant: a failed send rolls the order back.
SendSMSReturnsRollsBack(r) ==
    /\ sms[r] = "sending"
    /\ \/ sms' = [sms EXCEPT ![r] = "sent"] /\ orders' = orders
       \/ /\ sms' = [sms EXCEPT ![r] = "failed"]
          /\ orders' = SelectSeq(orders, LAMBDA o : o.createdBy # r)
    /\ UNCHANGED <<authVars, handlerVars, extraVars>>
    /\ UNCHANGED <<customers, pc, req, cust, ord, resp, smsArgs,
                   smsCalls, delPc, delId, delResp>>

\* Lines 275-280: SendSMS returns nil or an error; either is logged and the
\* goroutine ends.
SendSMSReturns(r) ==
    /\ sms[r] = "sending"
    /\ \/ sms' = [sms EXCEPT ![r] = "sent"]
       \/ sms' = [sms EXCEPT ![r] = "failed"]
    /\ UNCHANGED <<authVars, handlerVars, extraVars>>
    /\ UNCHANGED <<customers, orders, pc, req, cust, ord, resp, smsArgs,
                   smsCalls, delPc, delId, delResp>>

\* --------------------------------------------------------- DeleteCustomer
\* Lines 204-213: strconv.Atoi(c.Param("id")); 0 stands for a parameter
\* that is not a number.
ReceiveDelete(id) ==
    /\ delPc = "idle"
    /\ delId' = id
    /\ IF id = 0
       THEN delPc' = "done" /\ delResp' = 400
       ELSE delPc' = "lookup" /\ delResp' = delResp
    /\ UNCHANGED <<authVars, handlerVars, extraVars>>
    /\ UNCHANGED <<customers, orders, pc, req, cust, ord, resp, sms,
                   smsArgs, smsCalls>>

\* Lines 215-231: h.db.First(&customer, id)
DeleteLookup ==
    /\ delPc = "lookup"
    /\ \/ delPc' = "done" /\ delResp' = 500
       \/ ~Found(delId) /\ delPc' = "done" /\ delResp' = 404
       \/ Found(delId) /\ delPc' = "delete" /\ delResp' = delResp
    /\ UNCHANGED <<authVars, handlerVars, extraVars>>
    /\ UNCHANGED <<customers, orders, pc, req, cust, ord, resp, sms,
                   smsArgs, smsCalls, delId>>

\* Lines 233-242: h.db.Delete(&models.Customer{}, id) sets deleted_at
DeleteExec ==
    /\ delPc = "delete"
    /\ \/ delResp' = 500 /\ customers' = customers
       \/ /\ delResp' = 200
          /\ customers' = [customers EXCEPT ![delId].deleted = TRUE]
    /\ delPc' = "done"
    /\ UNCHANGED <<authVars, handlerVars, extraVars>>
    /\ UNCHANGED <<orders, pc, req, cust, ord, resp, sms, smsArgs, smsCalls,
                   delId>>


\* ========================================================= AuthMiddleware
\* The Authorization header is a string; it is kept as the sequence of its
\* pieces: a space, a word, or a token string. A token string is described
\* by what jwt.ParseWithClaims finds in it.
Space == [kind |-> "space", word |-> "", wellformed |-> FALSE, alg |-> "",
          key |-> "", exp |-> 0, email |-> "", sub |-> "", name |-> "",
          iss |-> "", iat |-> 0]

Word(w) == [kind |-> "word", word |-> w, wellformed |-> FALSE, alg |-> "",
            key |-> "", exp |-> 0, email |-> "", sub |-> "", name |-> "",
          iss |-> "", iat |-> 0]

\* "invalid.token.here": three segments that do not decode to JSON
GarbageToken == [kind |-> "token", word |-> "", wellformed |-> FALSE,
                 alg |-> "", key |-> "", exp |-> 0, email |-> "", sub |-> "", name |-> "",
          iss |-> "", iat |-> 0]

\* the literal the middleware falls back to when JWT_SECRET is empty
DefaultSecret == "secret-key"

\* values of the JWT_SECRET environment variable ("" is unset)
EnvSecrets == {"", "test-secret"}

\* keys a presented token may have been signed with
SigningKeys == {DefaultSecret, "test-secret", "wrong-secret"}

\* a well-formed token: header alg, the key its signature was made with, and
\* the members of its payload: email, sub, name, iss, and the exp and iat
\* members in seconds (0: the member is absent)
SignedTokens ==
    {[kind |-> "token", word |-> "", wellformed |-> TRUE, alg |-> a,
      key |-> k, exp |-> e, email |-> "test@example.com",
      sub |-> "test@example.com", name |-> "test user",
      iss |-> "customer-order-api", iat |-> 0] :
        a \in {"HS256", "none"}, k \in SigningKeys, e \in 0..MaxTime}

\* tokens as Callback issues them: the subject is the provider's, not the
\* e-mail address
ProviderTokens ==
    {[kind |-> "token", word |-> "", wellformed |-> TRUE, alg |-> "HS256",
      key |-> k, exp |-> MaxTime, email |-> "test@example.com",
      sub |-> "provider-sub", name |-> "test user",
      iss |-> "customer-order-api", iat |-> 0] : k \in SigningKeys}

Tokens == {GarbageToken} \cup SignedTokens \cup ProviderTokens

Headers ==
    {<<>>, <<Word("token123")>>, <<Word("Bearer")>>, <<Word("Bearer"), Space>>}
    \cup {<<Word("invalidformat"), Space, t>> : t \in Tokens}
    \cup {<<Word("bearer"), Space, t>> : t \in Tokens}
    \cup {<<Word("Bearer"), Space, t>> : t \in Tokens}
    \cup {<<Word("Bearer"), Space, Space, t>> : t \in Tokens}
    \cup {<<Word("Bearer"), Space, t, Space, Word("extra")>> : t \in Tokens}

\* strings.Split(s, " "): the pieces between the spaces, empty ones included
RECURSIVE SplitOnSpace(_)
SplitOnSpace(s) ==
    IF \A i \in 1..Len(s) : s[i] # Space
    THEN <<s>>
    ELSE LET i == CHOOSE j \in 1..Len(s) :
                      s[j] = Space /\ \A k \in 1..(j - 1) : s[k] # Space
         IN <<SubSeq(s, 1, i - 1)>> \o SplitOnSpace(SubSeq(s, i + 1, Len(s)))

\* Lines 62-65: os.Getenv("JWT_SECRET"), "secret-key" when empty
MiddlewareSecret(env) == IF env = "" THEN DefaultSecret ELSE env

\* the zero value of the middleware's Claims struct (lines 21-27)
NoClaims == [email |-> "", sub |-> "", name |-> "", iss |-> "", exp |-> 0]

\* gin's Context.Keys of one request: empty, or the three values of lines
\* 101-103
NoKeys == [exists |-> FALSE, claims |-> NoClaims, user_email |-> "",
           user_sub |-> ""]

\* A message is kept as the sequence of the phrases it is made of, so that
\* strings.Contains is a search for a phrase.
Contains(text, phrase) == \E i \in 1..Len(text) : text[i] = phrase

\* Variant: exp is compared as numbers with now <= exp (the rule of
\* jwt.StandardClaims), so a token is still taken at the instant it expires.
ParseWithClaimsExpInclusive(ts, secret, t) ==
    IF Len(ts) # 1 \/ ts[1].kind # "token"
    THEN [err |-> <<"token contains an invalid number of segments">>,
          claims |-> NoClaims]
    ELSE IF ~ts[1].wellformed
    THEN [err |-> <<"invalid character looking for beginning of value">>,
          claims |-> NoClaims]
    ELSE LET tok == ts[1]
             c == [email |-> tok.email, sub |-> tok.sub, name |-> tok.name,
                   iss |-> tok.iss, exp |-> tok.exp]
         IN IF tok.alg # "HS256"
            THEN [err |-> <<"unexpected signing method: ", tok.alg>>,
                  claims |-> c]
            ELSE IF tok.key # secret
            THEN [err |-> <<"signature is invalid">>, claims |-> c]
            ELSE IF tok.iat # 0 /\ t < tok.iat
            THEN [err |-> <<"token used before issued">>, claims |-> c]
            ELSE IF tok.exp # 0 /\ ~(t <= tok.exp)
            THEN [err |-> <<"token is expired", " by ", ToString(t - tok.exp)>>,
                  claims |-> c]
            ELSE [err |-> <<>>, claims |-> c]

\* Variant: the token is decoded without verifying its signature (as
\* Parser.ParseUnverified does).
ParseWithClaimsUnverified(ts, secret, t) ==
    IF Len(ts) # 1 \/ ts[1].kind # "token"
    THEN [err |-> <<"token contains an invalid number of segments">>,
          claims |-> NoClaims]
    ELSE IF ~ts[1].wellformed
    THEN [err |-> <<"invalid character looking for beginning of value">>,
          claims |-> NoClaims]
    ELSE LET tok == ts[1]
             c == [email |-> tok.email, sub |-> tok.sub, name |-> tok.name,
                   iss |-> tok.iss, exp |-> tok.exp]
         IN IF tok.alg # "HS256"
            THEN [err |-> <<"unexpected signing method: ", tok.alg>>,
                  claims |-> c]
            ELSE IF tok.iat # 0 /\ t < tok.iat
            THEN [err |-> <<"token used before issued">>, claims |-> c]
            ELSE IF tok.exp # 0 /\ ~(t < tok.exp)
            THEN [err |-> <<"token is expired", " by ", ToString(t - tok.exp)>>,
                  claims |-> c]
            ELSE [err |-> <<>>, claims |-> c]

\* jwt.ParseWithClaims (golang-jwt v4) with the key function of lines 69-74,
\* on token string ts at time t: the text of the error (<<>> for nil) and
\* the claims. The segments are decoded, then the key function is asked,
\* then the claims are validated (exp: now.Before(exp); iat: not after
\* now, its error replacing the one of exp), then the signature is verified,
\* whose error replaces the one of the claims.
ParseWithClaims(ts, secret, t) ==
    IF Len(ts) # 1 \/ ts[1].kind # "token"
    THEN [err |-> <<"token contains an invalid number of segments">>,
          claims |-> NoClaims]
    ELSE IF ~ts[1].wellformed
    THEN [err |-> <<"invalid character looking for beginning of value">>,
          claims |-> NoClaims]
    ELSE LET tok == ts[1]
             c == [email |-> tok.email, sub |-> tok.sub, name |-> tok.name,
                   iss |-> tok.iss, exp |-> tok.exp]
         IN IF tok.alg # "HS256"
            THEN [err |-> <<"unexpected signing method: ", tok.alg>>,
                  claims |-> c]
            ELSE IF tok.key # secret
            THEN [err |-> <<"signature is invalid">>, claims |-> c]
            ELSE IF tok.iat # 0 /\ t < tok.iat
            THEN [err |-> <<"token used before issued">>, claims |-> c]
            ELSE IF tok.exp # 0 /\ ~(t < tok.exp)
            THEN [err |-> <<"token is expired", " by ", ToString(t - tok.exp)>>,
                  claims |-> c]
            ELSE [err |-> <<>>, claims |-> c]

Unauthorized(error, message) ==
    [status |-> 401, error |-> error, message |-> message]

NoAuthResp == [status |-> 0, error |-> "", message |-> <<>>]

\* Variant: the test for an absent header is left out; the empty string then
\* fails the format test.
AuthOutcomeNoMissingCheck(header, env, t1, t2) ==
    LET parts == SplitOnSpace(header)
        abort(e, m) == [resp |-> Unauthorized(e, m), ctx |-> NoKeys,
                        next |-> FALSE]
    IN IF Len(parts) # 2 \/ parts[1] # <<Word("Bearer")>>
       THEN abort("invalid token format", <<"invalid token format">>)
       ELSE LET p == ParseWithClaims(parts[2], MiddlewareSecret(env), t1)
            IN IF p.err # <<>>
               THEN IF Contains(p.err, "token is malformed")
                    THEN abort("invalid token", <<"malformed token">>)
                    ELSE IF Contains(p.err, "token is expired")
                    THEN abort("invalid token", <<"expired token">>)
                    ELSE abort("invalid token", p.err)
               ELSE IF p.claims.exp # 0 /\ p.claims.exp < t2
               THEN abort("invalid token", <<"expired token">>)
               ELSE [resp |-> NoAuthResp,
                     ctx |-> [exists |-> TRUE, claims |-> p.claims,
                              user_email |-> p.claims.email,
                              user_sub |-> p.claims.sub],
                     next |-> TRUE]

\* Variant: "user_sub" is filled from the e-mail address of the claims.
AuthOutcomeSubFromEmail(header, env, t1, t2) ==
    LET parts == SplitOnSpace(header)
        abort(e, m) == [resp |-> Unauthorized(e, m), ctx |-> NoKeys,
                        next |-> FALSE]
    IN IF header = <<>>
       THEN abort("missing token", <<"missing token">>)
       ELSE IF Len(parts) # 2 \/ parts[1] # <<Word("Bearer")>>
       THEN abort("invalid token format", <<"invalid token format">>)
       ELSE LET p == ParseWithClaims(parts[2], MiddlewareSecret(env), t1)
            IN IF p.err # <<>>
               THEN IF Contains(p.err, "token is malformed")
                    THEN abort("invalid token", <<"malformed token">>)
                    ELSE IF Contains(p.err, "token is expired")
                    THEN abort("invalid token", <<"expired token">>)
                    ELSE abort("invalid token", p.err)
               ELSE IF p.claims.exp # 0 /\ p.claims.exp < t2
               THEN abort("invalid token", <<"expired token">>)
               ELSE [resp |-> NoAuthResp,
                     ctx |-> [exists |-> TRUE, claims |-> p.claims,
                              user_email |-> p.claims.email,
                              user_sub |-> p.claims.email],
                     next |-> TRUE]

\* Lines 47-104 as a function of the header, the environment and the two
\* clock readings (inside jwt, and at line 95): the response written, the
\* values put in the context, and whether c.Next() or c.Abort() is called.
AuthOutcome(header, env, t1, t2) ==
    LET parts == SplitOnSpace(header)
        abort(e, m) == [resp |-> Unauthorized(e, m), ctx |-> NoKeys,
                        next |-> FALSE]
    IN IF header = <<>>
       THEN abort("missing token", <<"missing token">>)
       ELSE IF Len(parts) # 2 \/ parts[1] # <<Word("Bearer")>>
       THEN abort("invalid token format", <<"invalid token format">>)
       ELSE LET p == ParseWithClaims(parts[2], MiddlewareSecret(env), t1)
            IN IF p.err # <<>>
               THEN IF Contains(p.err, "token is malformed")
                    THEN abort("invalid token", <<"malformed token">>)
                    ELSE IF Contains(p.err, "token is expired")
                    THEN abort("invalid token", <<"expired token">>)
                    ELSE abort("invalid token", p.err)
               ELSE IF p.claims.exp # 0 /\ p.claims.exp < t2
               THEN abort("invalid token", <<"expired token">>)
               ELSE [resp |-> NoAuthResp,
                     ctx |-> [exists |-> TRUE, claims |-> p.claims,
                              user_email |-> p.claims.email,
                              user_sub |-> p.claims.sub],
                     next |-> TRUE]

\* no request is in the middleware
GateIdle ==
    /\ authHeader = <<>>
    /\ authPc = "idle"
    /\ authResp = NoAuthResp
    /\ authCtx = NoKeys
    /\ verifiedAt = 0
    /\ handlerRan = FALSE
    /\ handlerRead = NoKeys

AuthIdle ==
    /\ jwtSecret = ""
    /\ now = 0
    /\ GateIdle

\* a request with any header of Headers arrives at any time, under any
\* environment
AuthInit ==
    /\ jwtSecret \in EnvSecrets
    /\ now \in 1..MaxTime
    /\ authHeader \in Headers
    /\ authPc = "received"
    /\ authResp = NoAuthResp
    /\ authCtx = NoKeys
    /\ verifiedAt = 0
    /\ handlerRan = FALSE
    /\ handlerRead = NoKeys

\* The middleware function runs; the clock may advance between its two
\* readings.
AuthMiddleware ==
    /\ authPc = "received"
    /\ \E t2 \in now..MaxTime :
          LET out == AuthOutcome(authHeader, jwtSecret, now, t2)
          IN /\ authResp' = out.resp
             /\ authCtx' = out.ctx
             /\ authPc' = IF out.next THEN "next" ELSE "aborted"
             /\ now' = t2
             /\ verifiedAt' = now
    /\ UNCHANGED <<jwtSecret, authHeader, handlerRan, handlerRead>>
    /\ UNCHANGED <<orderVars, handlerVars, extraVars>>

\* c.Next(): the handler registered behind the middleware runs and reads
\* the context with c.Get, as the handler of TestAuthMiddlewareContext does
RunHandler ==
    /\ authPc = "next"
    /\ handlerRan' = TRUE
    /\ handlerRead' = authCtx
    /\ authResp' = [status |-> 200, error |-> "", message |-> <<"success">>]
    /\ authPc' = "done"
    /\ UNCHANGED <<jwtSecret, now, authHeader, authCtx, verifiedAt>>
    /\ UNCHANGED <<orderVars, handlerVars, extraVars>>

AuthNext == AuthMiddleware \/ RunHandler

\* ============================================================ AuthHandler
\* The clock counts whole seconds: calls made within one second read the
\* same value.
\* Line 173: time.Now().Add(24 * time.Hour), in seconds
TokenLifetime == 86400

\* no token (the zero value of a string that holds a token)
NoToken == [kind |-> "none", word |-> "", wellformed |-> FALSE, alg |-> "",
            key |-> "", exp |-> 0, email |-> "", sub |-> "", name |-> "",
            iss |-> "", iat |-> 0]

\* request bodies of POST /login: json is FALSE for a body that is absent or
\* not JSON
Emails == {"", "not-an-email", "test@example.com"}

Passwords == {"", "password123"}

NoLoginBody == [json |-> FALSE, email |-> "", password |-> ""]

LoginBodies ==
    {NoLoginBody}
    \cup {[json |-> TRUE, email |-> e, password |-> p] :
             e \in Emails, p \in Passwords}

\* the validator's `email` rule, on the addresses of Emails
IsEmail(e) == e = "test@example.com"

\* c.ShouldBindJSON(&req) for models.LoginRequest:
\* Email `binding:"required,email"`, Password `binding:"required"`
BindLoginRequest(body) ==
    /\ body.json
    /\ body.email # "" /\ IsEmail(body.email)
    /\ body.password # ""

\* Variant: the token carries a fixed subject instead of the one asked for.
LoginClaimsFixedSubject(email, t) ==
    [Email |-> email, Sub |-> "Seb", Name |-> "Seb",
     Iss |-> "customer-order-api", Aud |-> "customer-order-api",
     Exp |-> t + TokenLifetime, Iat |-> t,
     ExpiresAt |-> t + TokenLifetime, Issuer |-> "customer-order-api",
     Subject |-> "Seb"]

\* Lines 173-188: the handlers.Claims value Login signs; ExpiresAt, Issuer
\* and Subject are the fields of the embedded jwt.RegisteredClaims
LoginClaims(email, t) ==
    [Email |-> email, Sub |-> email, Name |-> "Seb",
     Iss |-> "customer-order-api", Aud |-> "customer-order-api",
     Exp |-> t + TokenLifetime, Iat |-> t,
     ExpiresAt |-> t + TokenLifetime, Issuer |-> "customer-order-api",
     Subject |-> email]

\* encoding/json on handlers.Claims: the struct's own fields tagged sub,
\* iss, aud, exp and iat hide the embedded fields with the same tags, so
\* the payload is written from Email, Sub, Name, Iss, Aud, Exp and Iat
MarshalClaims(c) ==
    [email |-> c.Email, sub |-> c.Sub, name |-> c.Name, iss |-> c.Iss,
     aud |-> c.Aud, exp |-> c.Exp, iat |-> c.Iat]

\* jwt.NewWithClaims(jwt.SigningMethodHS256, claims).SignedString(key); the
\* aud member is carried by the token but read by no check of this program
SignedString(c, key) ==
    LET payload == MarshalClaims(c)
    IN [kind |-> "token", word |-> "", wellformed |-> TRUE, alg |-> "HS256",
        key |-> key, exp |-> payload.exp, email |-> payload.email,
        sub |-> payload.sub, name |-> payload.name, iss |-> payload.iss,
        iat |-> payload.iat]

\* a response of Login: the error body, the AuthResponse, or the redirect
\* with the state value of its URL (0: none)
LoginResponse(status, error, token, state) ==
    [status |-> status, error |-> error, token |-> token, state |-> state]

NoLoginResp == LoginResponse(0, "", NoToken, 0)

\* time.Now() is an instant [sec, ms]: the second and the part of the second
Later(a, b) == a.sec > b.sec \/ (a.sec = b.sec /\ a.ms > b.ms)

\* Line 162: "state-" + time.Now().Format("20060102150405"): the layout has
\* no field below the second
StateValue(at) == at.sec

\* Variant: with no JWT_SECRET the token is signed with the default key.
LoginOutcomeDefaultSecret(body, oidc, env, at) ==
    IF ~BindLoginRequest(body)
    THEN LoginResponse(400, "invalid request", NoToken, 0)
    ELSE IF body.email = "" \/ body.password = ""
    THEN LoginResponse(400, "invalid request", NoToken, 0)
    ELSE IF oidc
    THEN LoginResponse(302, "", NoToken, StateValue(at))
    ELSE LoginResponse(200, "",
            SignedString(LoginClaims(body.email, at.sec),
                         IF env = "" THEN DefaultSecret ELSE env), 0)

\* Lines 149-204: Login as a function of the body, the policy, JWT_SECRET
\* and the instant read by time.Now()
LoginOutcome(body, oidc, env, at) ==
    IF ~BindLoginRequest(body)
    THEN LoginResponse(400, "invalid request", NoToken, 0)
    ELSE IF body.email = "" \/ body.password = ""
    THEN LoginResponse(400, "invalid request", NoToken, 0)
    ELSE IF oidc
    THEN LoginResponse(302, "", NoToken, StateValue(at))
    ELSE IF env = ""
    THEN LoginResponse(500, "token generation failed", NoToken, 0)
    ELSE LoginResponse(200, "",
            SignedString(LoginClaims(body.email, at.sec), env), 0)

\* Lines 293-316: ValidateToken on a token string at time t: the error
\* (<<>> for nil) and the claims (the zero Claims for nil)
ValidateToken(tokenString, env, t) ==
    LET secret == IF env = "" THEN DefaultSecret ELSE env
        p == ParseWithClaims(<<tokenString>>, secret, t)
    IN IF p.err # <<>>
       THEN [err |-> p.err, claims |-> NoClaims]
       ELSE p

NoInstant == [sec |-> 0, ms |-> 0]

HandlerIdle ==
    /\ oidcConfig = FALSE
    /\ loginCount = 0
    /\ loginReq = [body |-> NoLoginBody, at |-> NoInstant]
    /\ loginResp = NoLoginResp
    /\ issuedStates = <<>>
    /\ vtToken = NoToken
    /\ vtOut = [err |-> <<>>, claims |-> NoClaims]
    /\ cbPc = "idle"
    /\ cbQuery = [code |-> "", state |-> ""]
    /\ cbTrace = <<>>
    /\ cbResp = [status |-> 0, error |-> "", token |-> NoToken]

\* NewAuthHandler (lines 115-147) has run: oidcConfig is TRUE when the four
\* OIDC_* variables are set and the provider's discovery answered
LoginInit ==
    /\ oidcConfig \in BOOLEAN
    /\ jwtSecret \in EnvSecrets
    /\ now = 1
    /\ loginCount = 0
    /\ loginReq = [body |-> NoLoginBody, at |-> NoInstant]
    /\ loginResp = NoLoginResp
    /\ issuedStates = <<>>
    /\ vtToken = NoToken
    /\ vtOut = [err |-> <<>>, claims |-> NoClaims]
    /\ cbPc = "idle"
    /\ cbQuery = [code |-> "", state |-> ""]
    /\ cbTrace = <<>>
    /\ cbResp = [status |-> 0, error |-> "", token |-> NoToken]

\* the wall clock passes to the next second
Tick ==
    /\ now < MaxTime
    /\ now' = now + 1
    /\ UNCHANGED <<jwtSecret, authHeader, authPc, authResp, authCtx,
                   verifiedAt, handlerRan, handlerRead>>
    /\ UNCHANGED <<orderVars, handlerVars, extraVars>>

\* POST /login: one call of Login, at an instant of the current second later
\* than the instant of the call before
Login(body, ms) ==
    LET at == [sec |-> now, ms |-> ms]
        out == LoginOutcome(body, oidcConfig, jwtSecret, at)
    IN /\ loginCount < MaxLogins
       /\ Later(at, loginReq.at)
       /\ loginCount' = loginCount + 1
       /\ loginReq' = [body |-> body, at |-> at]
       /\ loginResp' = out
       /\ issuedStates' = IF out.status = 302
                          THEN Append(issuedStates, [state |-> out.state, at |-> at])
                          ELSE issuedStates
       /\ UNCHANGED <<oidcConfig, vtToken, vtOut, cbPc, cbQuery, cbTrace,
                      cbResp>>
       /\ UNCHANGED <<orderVars, authVars, extraVars>>

\* token strings given to ValidateToken besides the ones Login issued
PresentedTokens == {t \in Tokens : t.exp \in {0, 1}}

\* one call of ValidateToken
ValidateTokenCall(tokenString) ==
    /\ vtToken' = tokenString
    /\ vtOut' = ValidateToken(tokenString, jwtSecret, now)
    /\ UNCHANGED <<oidcConfig, loginCount, loginReq, loginResp, issuedStates,
                   cbPc, cbQuery, cbTrace, cbResp>>
    /\ UNCHANGED <<orderVars, authVars, extraVars>>

\* the token of the latest Login response is given to ValidateToken
ValidateIssuedToken ==
    /\ loginResp.status = 200
    /\ ValidateTokenCall(loginResp.token)

\* ------------------------------------------------------------- Callback
\* query strings of GET /callback ("" for a parameter that is absent)
CallbackQueries == [code : {"", "authcode123"}, state : {"", "state-123"}]

\* the claims of an ID token the provider may return
IdTokenClaims ==
    {[email |-> "test@example.com", sub |-> "provider-sub", name |-> "test user"]}

CallbackResponse(status, error, token) ==
    [status |-> status, error |-> error, token |-> token]

\* Lines 252-255: os.Getenv("JWT_SECRET"), "secret-key" when empty
CallbackSecret(env) == IF env = "" THEN DefaultSecret ELSE env

\* Lines 257-271: the handlers.Claims value Callback signs
CallbackClaims(idc, t) ==
    [Email |-> idc.email, Sub |-> idc.sub, Name |-> idc.name,
     Iss |-> "customer-order-api", Aud |-> "customer-order-api",
     Exp |-> t + TokenLifetime, Iat |-> t,
     ExpiresAt |-> t + TokenLifetime, Issuer |-> "customer-order-api",
     Subject |-> idc.sub]

\* Lines 207-220: the policy and the code parameter are tested; cbTrace
\* records the tests passed and the calls made to the provider
CallbackReceive(q) ==
    /\ cbPc = "idle"
    /\ cbQuery' = q
    /\ IF ~oidcConfig
       THEN /\ cbResp' = CallbackResponse(400, "oidc_not_configured", NoToken)
            /\ cbPc' = "done"
            /\ cbTrace' = cbTrace
       ELSE IF q.code = ""
       THEN /\ cbResp' = CallbackResponse(400, "missing code", NoToken)
            /\ cbPc' = "done"
            /\ cbTrace' = Append(cbTrace, "oidcConfig")
       ELSE /\ cbResp' = cbResp
            /\ cbPc' = "exchange"
            /\ cbTrace' = cbTrace \o <<"oidcConfig", "code">>
    /\ UNCHANGED <<oidcConfig, loginCount, loginReq, loginResp, issuedStates,
                   vtToken, vtOut>>
    /\ UNCHANGED <<orderVars, authVars, extraVars>>

\* Variant: the token is issued as soon as the code was exchanged, the ID
\* token is not verified.
CallbackExchangeIssues ==
    /\ cbPc = "exchange"
    /\ \/ /\ cbResp' = CallbackResponse(500, "token_exchange_failed", NoToken)
          /\ cbTrace' = Append(cbTrace, "Exchange failed")
       \/ \E idc \in IdTokenClaims :
            /\ cbResp' = CallbackResponse(200, "",
                            SignedString(CallbackClaims(idc, now),
                                         CallbackSecret(jwtSecret)))
            /\ cbTrace' = Append(cbTrace, "Exchange")
    /\ cbPc' = "done"
    /\ UNCHANGED <<oidcConfig, loginCount, loginReq, loginResp, issuedStates,
                   vtToken, vtOut, cbQuery>>
    /\ UNCHANGED <<orderVars, authVars, extraVars>>

\* Lines 222-233: h.oauth2.Exchange(ctx, code) returns an error, a token
\* without id_token, or a token with one
CallbackExchange ==
    /\ cbPc = "exchange"
    /\ \/ /\ cbResp' = CallbackResponse(500, "token_exchange_failed", NoToken)
          /\ cbPc' = "done"
          /\ cbTrace' = Append(cbTrace, "Exchange failed")
       \/ /\ cbResp' = CallbackResponse(500, "id_token_missing", NoToken)
          /\ cbPc' = "done"
          /\ cbTrace' = cbTrace \o <<"Exchange", "id_token missing">>
       \/ /\ cbResp' = cbResp
          /\ cbPc' = "verify"
          /\ cbTrace' = Append(cbTrace, "Exchange")
    /\ UNCHANGED <<oidcConfig, loginCount, loginReq, loginResp, issuedStates,
                   vtToken, vtOut, cbQuery>>
    /\ UNCHANGED <<orderVars, authVars, extraVars>>

\* Lines 235-288: h.verifier.Verify(ctx, idToken) and token.Claims(&claims)
\* return an error, or the token is signed and answered
CallbackVerify ==
    /\ cbPc = "verify"
    /\ \/ /\ cbResp' = CallbackResponse(401, "invalid_id_token", NoToken)
          /\ cbTrace' = Append(cbTrace, "Verify failed")
       \/ /\ cbResp' = CallbackResponse(500, "invalid_id_token", NoToken)
          /\ cbTrace' = cbTrace \o <<"Verify", "Claims failed">>
       \/ \E idc \in IdTokenClaims :
            /\ cbResp' = CallbackResponse(200, "",
                            SignedString(CallbackClaims(idc, now),
                                         CallbackSecret(jwtSecret)))
            /\ cbTrace' = Append(cbTrace, "Verify")
    /\ cbPc' = "done"
    /\ UNCHANGED <<oidcConfig, loginCount, loginReq, loginResp, issuedStates,
                   vtToken, vtOut, cbQuery>>
    /\ UNCHANGED <<orderVars, authVars, extraVars>>

\* the token of the Callback response is given to ValidateToken
ValidateCallbackToken ==
    /\ cbResp.status = 200
    /\ ValidateTokenCall(cbResp.token)

\* NewAuthHandler has run and a callback may arrive at any time
CallbackInit ==
    /\ oidcConfig \in BOOLEAN
    /\ jwtSecret \in EnvSecrets
    /\ now \in 1..MaxTime
    /\ loginCount = 0
    /\ loginReq = [body |-> NoLoginBody, at |-> NoInstant]
    /\ loginResp = NoLoginResp
    /\ issuedStates = <<>>
    /\ vtToken = NoToken
    /\ vtOut = [err |-> <<>>, claims |-> NoClaims]
    /\ cbPc = "idle"
    /\ cbQuery = [code |-> "", state |-> ""]
    /\ cbTrace = <<>>
    /\ cbResp = CallbackResponse(0, "", NoToken)

CallbackNext ==
    \/ Tick
    \/ \E q \in CallbackQueries : CallbackReceive(q)
    \/ CallbackExchange
    \/ CallbackVerify
    \/ ValidateCallbackToken

\* the token string of a "Bearer <token>" request is also given to
\* ValidateToken
ValidateHeaderToken ==
    /\ Len(authHeader) = 3
    /\ authHeader[1] = Word("Bearer")
    /\ authHeader[2] = Space
    /\ authHeader[3].kind = "token"
    /\ vtToken = NoToken
    /\ ValidateTokenCall(authHeader[3])

VerifyNext == AuthMiddleware \/ RunHandler \/ ValidateHeaderToken

LoginNext ==
    \/ Tick
    \/ \E body \in LoginBodies, ms \in 0..1 : Login(body, ms)
    \/ \E t \in PresentedTokens : ValidateTokenCall(t)
    \/ ValidateIssuedToken

\* ================================================================ routes
\* main (src/main.go lines 116-149) and SetupRouter register the same
\* routes. A path is kept as the sequence of its segments.
ApiResources == {"customers", "orders"}

\* the name of the handler registered for a method on a resource
ResourceHandler(method, res, one) ==
    LET kind == IF res = "customers" THEN "Customer" ELSE "Order"
    IN CASE method = "POST" /\ ~one -> "Create" \o kind
         [] method = "GET" /\ ~one -> "Get" \o kind \o "s"
         [] method = "GET" /\ one -> "Get" \o kind
         [] method = "PUT" /\ one -> "Update" \o kind
         [] method = "DELETE" /\ one -> "Delete" \o kind
         [] OTHER -> ""

\* r.GET, auth.GET, customers.POST, ...: method, full path, the handlers
\* given in the call
Routes ==
    {[method |-> "GET", path |-> <<"health">>, handlers |-> <<"health">>],
     [method |-> "GET", path |-> <<"auth", "login">>,
      handlers |-> <<"Login">>],
     [method |-> "GET", path |-> <<"auth", "callback">>,
      handlers |-> <<"Callback">>],
     [method |-> "GET", path |-> <<"auth", "userinfo">>,
      handlers |-> <<"AuthMiddleware", "UserInfo">>]}
    \cup {[method |-> m, path |-> <<"api", "v1", res>>,
           handlers |-> <<ResourceHandler(m, res, FALSE)>>] :
             m \in {"POST", "GET"}, res \in ApiResources}
    \cup {[method |-> m, path |-> <<"api", "v1", res, ":id">>,
           handlers |-> <<ResourceHandler(m, res, TRUE)>>] :
             m \in {"GET", "PUT", "DELETE"}, res \in ApiResources}

\* gin.Default(): Logger and Recovery are in front of every route
EngineHandlers == <<"Logger", "Recovery">>

IsPrefix(p, s) == Len(p) <= Len(s) /\ SubSeq(s, 1, Len(p)) = p

\* Variant: the /api/v1 group is created without api.Use, its routes carry
\* their own handlers only.
HandlersChainNoGroupUse(rt) == EngineHandlers \o rt.handlers

\* RouterGroup.combineHandlers: the handlers of the engine, of the group
\* (api.Use(middleware.AuthMiddleware()) for /api/v1), and of the route
HandlersChain(rt) ==
    EngineHandlers
    \o (IF IsPrefix(<<"api", "v1">>, rt.path) THEN <<"AuthMiddleware">>
        ELSE <<>>)
    \o rt.handlers

\* requests: one for every route, a registered path with a method that is
\* not registered for it, and a path that is not registered
Requests ==
    {[method |-> rt.method, path |-> rt.path] : rt \in Routes}
    \cup {[method |-> "POST", path |-> <<"auth", "login">>],
          [method |-> "GET", path |-> <<"api", "v1", "products">>]}

NoRequest == [method |-> "", path |-> <<>>]

\* Engine.handleHTTPRequest: the chain of the matching route, or the
\* engine's handlers alone (answered 404) when no route matches
ChainOf(q) ==
    IF \E rt \in Routes : rt.method = q.method /\ rt.path = q.path
    THEN HandlersChain(CHOOSE rt \in Routes :
                           rt.method = q.method /\ rt.path = q.path)
    ELSE EngineHandlers

RouteIdle ==
    /\ rtReq = NoRequest
    /\ rtPc = "idle"
    /\ rtIndex = 0
    /\ rtServed = ""

\* Engine.ServeHTTP: the request is matched and its chain starts
ServeHTTP(q) ==
    /\ rtPc = "idle"
    /\ authPc = "received"
    /\ rtReq' = q
    /\ rtIndex' = 1
    /\ rtPc' = "running"
    /\ UNCHANGED rtServed
    /\ UNCHANGED <<orderVars, authVars, handlerVars, cancelVars, customerVars,
                   timeoutVars, rateVars>>

\* Logger, Recovery: c.Next()
PassThrough ==
    /\ rtPc = "running"
    /\ rtIndex <= Len(ChainOf(rtReq))
    /\ ChainOf(rtReq)[rtIndex] \in {"Logger", "Recovery"}
    /\ rtIndex' = rtIndex + 1
    /\ UNCHANGED <<rtReq, rtPc, rtServed>>
    /\ UNCHANGED <<orderVars, authVars, handlerVars, cancelVars, customerVars,
                   timeoutVars, rateVars>>

\* the chain has come to middleware.AuthMiddleware(): c.Abort() ends the
\* chain, c.Next() goes on to the handler behind it
RouteAuth ==
    /\ rtPc = "running"
    /\ rtIndex <= Len(ChainOf(rtReq))
    /\ ChainOf(rtReq)[rtIndex] = "AuthMiddleware"
    /\ \E t2 \in now..MaxTime :
          LET out == AuthOutcome(authHeader, jwtSecret, now, t2)
          IN /\ authResp' = out.resp
             /\ authCtx' = out.ctx
             /\ authPc' = IF out.next THEN "next" ELSE "aborted"
             /\ now' = t2
             /\ verifiedAt' = now
             /\ rtPc' = IF out.next THEN "running" ELSE "aborted"
    /\ rtIndex' = rtIndex + 1
    /\ UNCHANGED <<rtReq, rtServed>>
    /\ UNCHANGED <<jwtSecret, authHeader, handlerRan, handlerRead>>
    /\ UNCHANGED <<orderVars, handlerVars, cancelVars, customerVars,
                   timeoutVars, rateVars>>

\* the chain has come to the handler of the route
RouteHandler ==
    /\ rtPc = "running"
    /\ rtIndex <= Len(ChainOf(rtReq))
    /\ ChainOf(rtReq)[rtIndex] \notin {"Logger", "Recovery", "AuthMiddleware"}
    /\ rtServed' = ChainOf(rtReq)[rtIndex]
    /\ rtIndex' = rtIndex + 1
    /\ rtPc' = "done"
    /\ handlerRan' = TRUE
    /\ UNCHANGED rtReq
    /\ UNCHANGED <<jwtSecret, now, authHeader, authPc, authResp, authCtx,
                   verifiedAt, handlerRead>>
    /\ UNCHANGED <<orderVars, handlerVars, cancelVars, customerVars,
                   timeoutVars, rateVars>>

\* the chain ends without a route: serveError writes 404
NotFound ==
    /\ rtPc = "running"
    /\ rtIndex > Len(ChainOf(rtReq))
    /\ rtPc' = "notfound"
    /\ UNCHANGED <<rtReq, rtIndex, rtServed>>
    /\ UNCHANGED <<orderVars, authVars, handlerVars, cancelVars, customerVars,
                   timeoutVars, rateVars>>

RouteNext ==
    \/ \E q \in Requests : ServeHTTP(q)
    \/ PassThrough
    \/ RouteAuth
    \/ RouteHandler
    \/ NotFound

\* ======================================================== CreateCustomer
\* internal/handlers/customer.go lines 22-61, over the customers table with
\* its unique indexes on code and on email (models.Customer).
CustomerCodes == {"CUST001", "CUST002"}

CustomerEmails == {"sebbievilar2@gmail.com", "different@gmail.com"}

\* models.CreateCustomerRequest: the name and the phone are those of the
\* test's requests; code "" is the missing field
CreateBodies ==
    [name : {"Sebbie Mzing"}, code : CustomerCodes \cup {""},
     phone : {"+254740827150"}, email : CustomerEmails]

NoCreateBody == [name |-> "", code |-> "", phone |-> "", email |-> ""]

NoCreateResp == [status |-> 0, error |-> "", message |-> ""]

\* c.ShouldBindJSON(&req): name, code and phone `binding:"required"`,
\* email `binding:"email"`
BindCreateCustomer(body) ==
    /\ body.name # "" /\ body.code # "" /\ body.phone # ""
    /\ body.email \in CustomerEmails

\* h.db.Where("code = ?", code).First(&existingCustomer) returns a row
CodeStored(code) ==
    \E i \in 1..Len(custRows) : custRows[i].code = code

\* the insert breaks one of the table's unique indexes
UniqueViolation(body) ==
    \E i \in 1..Len(custRows) :
        custRows[i].code = body.code \/ custRows[i].email = body.email

CustomerIdle ==
    /\ custRows = <<>>
    /\ ccPc = [s \in CreateReqs |-> "idle"]
    /\ ccReq = [s \in CreateReqs |-> NoCreateBody]
    /\ ccResp = [s \in CreateReqs |-> NoCreateResp]

\* lines 23-32: the body is bound
CreateCustomerBind(s, body) ==
    /\ ccPc[s] = "idle"
    /\ \A q \in CreateReqs : q < s => ccPc[q] # "idle"
    /\ ccReq' = [ccReq EXCEPT ![s] = body]
    /\ IF BindCreateCustomer(body)
       THEN /\ ccPc' = [ccPc EXCEPT ![s] = "check"]
            /\ ccResp' = ccResp
       ELSE /\ ccPc' = [ccPc EXCEPT ![s] = "done"]
            /\ ccResp' = [ccResp EXCEPT ![s] =
                    [status |-> 400, error |-> "invalid request",
                     message |-> "binding"]]
    /\ UNCHANGED custRows
    /\ UNCHANGED <<orderVars, authVars, handlerVars, cancelVars, routeVars,
                   timeoutVars, rateVars>>

\* lines 34-42: the query for a customer with the code of the request
CreateCustomerCheck(s) ==
    /\ ccPc[s] = "check"
    /\ IF CodeStored(ccReq[s].code)
       THEN /\ ccPc' = [ccPc EXCEPT ![s] = "done"]
            /\ ccResp' = [ccResp EXCEPT ![s] =
                    [status |-> 409, error |-> "customer_exists",
                     message |-> "customer with this code already exists"]]
       ELSE /\ ccPc' = [ccPc EXCEPT ![s] = "insert"]
            /\ ccResp' = ccResp
    /\ UNCHANGED <<custRows, ccReq>>
    /\ UNCHANGED <<orderVars, authVars, handlerVars, cancelVars, routeVars,
                   timeoutVars, rateVars>>

\* lines 44-60: h.db.Create(&customer) and the answer
CreateCustomerInsert(s) ==
    /\ ccPc[s] = "insert"
    /\ IF UniqueViolation(ccReq[s])
       THEN /\ custRows' = custRows
            /\ ccResp' = [ccResp EXCEPT ![s] =
                    [status |-> 500, error |-> "database error",
                     message |-> "failed to create customer"]]
       ELSE /\ custRows' = Append(custRows,
                    [id |-> Len(custRows) + 1, code |-> ccReq[s].code,
                     email |-> ccReq[s].email, createdBy |-> s])
            /\ ccResp' = [ccResp EXCEPT ![s] =
                    [status |-> 201, error |-> "", message |-> ""]]
    /\ ccPc' = [ccPc EXCEPT ![s] = "done"]
    /\ UNCHANGED ccReq
    /\ UNCHANGED <<orderVars, authVars, handlerVars, cancelVars, routeVars,
                   timeoutVars, rateVars>>

CustomerNext ==
    \/ \E s \in CreateReqs, body \in CreateBodies : CreateCustomerBind(s, body)
    \/ \E s \in CreateReqs : CreateCustomerCheck(s)
    \/ \E s \in CreateReqs : CreateCustomerInsert(s)

\* ================================================= handlers.AuthHandler
\* internal/handlers/auth.go, the package of lines 180-460: Login and
\* ValidateToken of the handler main constructs with
\* handlers.NewAuthHandler().

\* encoding/json into handlers.Claims (lines 204-213): the members sub, iss,
\* aud, exp and iat are taken by the struct's own fields of those tags, so
\* the fields of the embedded jwt.RegisteredClaims stay nil (0)
UnmarshalHandlersClaims(tok) ==
    [Email |-> tok.email, Sub |-> tok.sub, Name |-> tok.name,
     Iss |-> tok.iss, Exp |-> tok.exp, Iat |-> tok.iat,
     ExpiresAt |-> 0, IssuedAt |-> 0]

\* jwt.RegisteredClaims.Valid at time t, the method handlers.Claims gets
\* from its embedded field: a nil ExpiresAt or IssuedAt is not checked
RegisteredClaimsValid(c, t) ==
    IF c.IssuedAt # 0 /\ t < c.IssuedAt
    THEN <<"token used before issued">>
    ELSE IF c.ExpiresAt # 0 /\ ~(t < c.ExpiresAt)
    THEN <<"token is expired", " by ", ToString(t - c.ExpiresAt)>>
    ELSE <<>>

\* Lines 451-460: ValidateToken on the token string ts at time t; the key
\* function returns h.jwtSecret (JWT_SECRET as read by NewAuthHandler, line
\* 216) for every signing method
HandlersValidateToken(ts, env, t) ==
    IF Len(ts) # 1 \/ ts[1].kind # "token"
    THEN [err |-> <<"token contains an invalid number of segments">>,
          claims |-> NoClaims]
    ELSE IF ~ts[1].wellformed
    THEN [err |-> <<"invalid character looking for beginning of value">>,
          claims |-> NoClaims]
    ELSE LET tok == ts[1]
             c == UnmarshalHandlersClaims(tok)
         IN IF tok.alg # "HS256"
            THEN [err |-> <<"'none' signature type is not allowed">>,
                  claims |-> NoClaims]
            ELSE IF tok.key # env
            THEN [err |-> <<"signature is invalid">>, claims |-> NoClaims]
            ELSE IF RegisteredClaimsValid(c, t) # <<>>
            THEN [err |-> RegisteredClaimsValid(c, t), claims |-> NoClaims]
            ELSE [err |-> <<>>,
                  claims |-> [email |-> c.Email, sub |-> c.Sub,
                              name |-> c.Name, iss |-> c.Iss,
                              exp |-> c.Exp]]

\* Lines 251-321: Login as a function of the body, h.oidcEnabled, h.jwtSecret
\* and the instant read by time.Now()
HandlersLoginOutcome(body, oidc, env, at) ==
    IF oidc
    THEN LoginResponse(302, "", NoToken, StateValue(at))
    ELSE IF ~BindLoginRequest(body)
    THEN LoginResponse(400, "invalid request", NoToken, 0)
    ELSE IF body.email = "" \/ body.password = ""
    THEN LoginResponse(400, "invalid request", NoToken, 0)
    ELSE IF env = ""
    THEN LoginResponse(500, "token generation failed", NoToken, 0)
    ELSE LoginResponse(200, "",
            SignedString(LoginClaims(body.email, at.sec), env), 0)

\* GET /auth/login: one call of handlers.AuthHandler.Login
HandlersLogin(body, ms) ==
    LET at == [sec |-> now, ms |-> ms]
        out == HandlersLoginOutcome(body, oidcConfig, jwtSecret, at)
    IN /\ loginCount < MaxLogins
       /\ now <= MaxTime
       /\ Later(at, loginReq.at)
       /\ loginCount' = loginCount + 1
       /\ loginReq' = [body |-> body, at |-> at]
       /\ loginResp' = out
       /\ issuedStates' = IF out.status = 302
                          THEN Append(issuedStates, [state |-> out.state, at |-> at])
                          ELSE issuedStates
       /\ UNCHANGED <<oidcConfig, vtToken, vtOut, cbPc, cbQuery, cbTrace,
                      cbResp>>
       /\ UNCHANGED <<orderVars, authVars, extraVars>>

\* the token of the latest Login response is given to ValidateToken of the
\* same handler
HandlersValidateIssuedToken ==
    /\ loginResp.status = 200
    /\ vtToken' = loginResp.token
    /\ vtOut' = HandlersValidateToken(<<loginResp.token>>, jwtSecret, now)
    /\ UNCHANGED <<oidcConfig, loginCount, loginReq, loginResp, issuedStates,
                   cbPc, cbQuery, cbTrace, cbResp>>
    /\ UNCHANGED <<orderVars, authVars, extraVars>>

\* the lifetime of a token passes on the wall clock
DayPasses ==
    /\ now <= MaxTime
    /\ now' = now + TokenLifetime
    /\ UNCHANGED <<jwtSecret, authHeader, authPc, authResp, authCtx,
                   verifiedAt, handlerRan, handlerRead>>
    /\ UNCHANGED <<orderVars, handlerVars, extraVars>>

HandlersNext ==
    \/ Tick
    \/ DayPasses
    \/ \E body \in LoginBodies, ms \in 0..1 : HandlersLogin(body, ms)
    \/ HandlersValidateIssuedToken

\* ============================== AuthMiddleware of new/another_new.go
\* strings.SplitN(s, " ", 2): the string cut at its first space
SplitNTwo(s) ==
    IF \A i \in 1..Len(s) : s[i] # Space
    THEN <<s>>
    ELSE LET i == CHOOSE j \in 1..Len(s) :
                      s[j] = Space /\ \A k \in 1..(j - 1) : s[k] # Space
         IN <<SubSeq(s, 1, i - 1), SubSeq(s, i + 1, Len(s))>>

\* Lines 51-62: the message chosen from the bits of the jwt.ValidationError
ValidationMessage(err) ==
    IF Contains(err, "token contains an invalid number of segments")
       \/ Contains(err, "invalid character looking for beginning of value")
    THEN <<"Malformed token">>
    ELSE IF Contains(err, "token is expired")
            \/ Contains(err, "token is not valid yet")
    THEN <<"Token expired or not active yet">>
    ELSE <<"Invalid token">>

\* new/another_new.go lines 19-81 (unnamed/part_006 lines 18-75 is the same
\* function with the error codes written apart): the response written, the
\* values put in the context, and whether c.Next() or c.Abort() is called
AuthOutcomeSplitN(header, env, t) ==
    LET parts == SplitNTwo(header)
        abort(e, m) == [resp |-> Unauthorized(e, m), ctx |-> NoKeys,
                        next |-> FALSE]
    IN IF header = <<>>
       THEN abort("missing_token", <<"Authorization header is required">>)
       ELSE IF Len(parts) # 2 \/ parts[1] # <<Word("Bearer")>>
       THEN abort("invalid_token_format",
                  <<"Authorization header must be in format 'Bearer <token>'">>)
       ELSE LET v == HandlersValidateToken(parts[2], env, t)
            IN IF v.err # <<>>
               THEN abort("invalid_token", ValidationMessage(v.err))
               ELSE [resp |-> NoAuthResp,
                     ctx |-> [exists |-> TRUE, claims |-> v.claims,
                              user_email |-> v.claims.email,
                              user_sub |-> v.claims.sub],
                     next |-> TRUE]

\* the request is served by the middleware of new/another_new.go
AuthMiddlewareSplitN ==
    /\ authPc = "received"
    /\ LET out == AuthOutcomeSplitN(authHeader, jwtSecret, now)
       IN /\ authResp' = out.resp
          /\ authCtx' = out.ctx
          /\ authPc' = IF out.next THEN "next" ELSE "aborted"
    /\ verifiedAt' = now
    /\ UNCHANGED <<jwtSecret, now, authHeader, handlerRan, handlerRead>>
    /\ UNCHANGED <<orderVars, handlerVars, extraVars>>

FormatNext == AuthMiddleware \/ AuthMiddlewareSplitN \/ RunHandler

\* ====================================================== TimeoutMiddleware
\* new/another_new.go lines 226-251 (unnamed/part_006 lines 202-228 is the
\* same function): per request, the middleware goroutine waits in a select
\* for the done channel or for ctx.Done(), while a second goroutine runs
\* c.Next() and then sends on done. done is made without a buffer, so the
\* send completes only together with the receive of the select.

\* statuses the downstream handler may write
HandlerStatuses == {200, 500}

TimeoutIdle ==
    /\ tmPc = [r \in TimeoutReqs |-> "idle"]
    /\ goPc = [r \in TimeoutReqs |-> "none"]
    /\ tmDeadline = [r \in TimeoutReqs |-> FALSE]
    /\ tmAborted = [r \in TimeoutReqs |-> FALSE]
    /\ tmWrites = [r \in TimeoutReqs |-> <<>>]

\* lines 228-237: the context gets its deadline, done is made, the
\* goroutine is started and the middleware comes to its select
TimeoutEnter(r) ==
    /\ tmPc[r] = "idle"
    /\ \A q \in TimeoutReqs : q < r => tmPc[q] # "idle"
    /\ tmPc' = [tmPc EXCEPT ![r] = "select"]
    /\ goPc' = [goPc EXCEPT ![r] = "spawned"]
    /\ UNCHANGED <<tmDeadline, tmAborted, tmWrites>>
    /\ UNCHANGED <<orderVars, authVars, handlerVars, cancelVars, routeVars,
                   customerVars, rateVars>>

\* line 235, c.Next() in the goroutine: the handlers behind the middleware
\* start, unless the goroutine sees the index c.Abort() has set. The index
\* is written by the middleware goroutine and read here without
\* synchronisation: after an abort either outcome is possible.
GoNext(r) ==
    /\ goPc[r] = "spawned"
    /\ \/ goPc' = [goPc EXCEPT ![r] = "running"]
       \/ /\ tmAborted[r]
          /\ goPc' = [goPc EXCEPT ![r] = "send"]
    /\ UNCHANGED <<tmPc, tmDeadline, tmAborted, tmWrites>>
    /\ UNCHANGED <<orderVars, authVars, handlerVars, cancelVars, routeVars,
                   customerVars, rateVars>>

\* the downstream handler writes its response with c.JSON and returns; the
\* goroutine comes to `done <- struct{}{}` (line 236). Nothing in the
\* handler or in gin's writer looks at what the middleware has written.
HandlerResponds(r, status) ==
    /\ goPc[r] = "running"
    /\ tmWrites' = [tmWrites EXCEPT ![r] =
                       Append(@, [by |-> "handler", status |-> status])]
    /\ goPc' = [goPc EXCEPT ![r] = "send"]
    /\ UNCHANGED <<tmPc, tmDeadline, tmAborted>>
    /\ UNCHANGED <<orderVars, authVars, handlerVars, cancelVars, routeVars,
                   customerVars, rateVars>>

\* the timeout passes while the middleware is in its select: ctx.Done() is
\* closed
DeadlinePasses(r) ==
    /\ tmPc[r] = "select"
    /\ ~tmDeadline[r]
    /\ tmDeadline' = [tmDeadline EXCEPT ![r] = TRUE]
    /\ UNCHANGED <<tmPc, goPc, tmAborted, tmWrites>>
    /\ UNCHANGED <<orderVars, authVars, handlerVars, cancelVars, routeVars,
                   customerVars, rateVars>>

\* lines 240-241, case <-done: the send and the receive happen together,
\* the goroutine ends and the middleware returns
DoneReceived(r) ==
    /\ tmPc[r] = "select"
    /\ goPc[r] = "send"
    /\ tmPc' = [tmPc EXCEPT ![r] = "returned"]
    /\ goPc' = [goPc EXCEPT ![r] = "exited"]
    /\ UNCHANGED <<tmDeadline, tmAborted, tmWrites>>
    /\ UNCHANGED <<orderVars, authVars, handlerVars, cancelVars, routeVars,
                   customerVars, rateVars>>

\* lines 242-249, case <-ctx.Done(): 408 is written, c.Abort() is called and
\* the middleware returns. A select with both cases ready takes either.
SelectTimeout(r) ==
    /\ tmPc[r] = "select"
    /\ tmDeadline[r]
    /\ tmWrites' = [tmWrites EXCEPT ![r] =
                       Append(@, [by |-> "timeout", status |-> 408])]
    /\ tmAborted' = [tmAborted EXCEPT ![r] = TRUE]
    /\ tmPc' = [tmPc EXCEPT ![r] = "returned"]
    /\ UNCHANGED <<goPc, tmDeadline>>
    /\ UNCHANGED <<orderVars, authVars, handlerVars, cancelVars, routeVars,
                   customerVars, rateVars>>

TimeoutNext ==
    \/ \E r \in TimeoutReqs : TimeoutEnter(r)
    \/ \E r \in TimeoutReqs : GoNext(r)
    \/ \E r \in TimeoutReqs, st \in HandlerStatuses : HandlerResponds(r, st)
    \/ \E r \in TimeoutReqs : DeadlinePasses(r)
    \/ \E r \in TimeoutReqs : DoneReceived(r)
    \/ \E r \in TimeoutReqs : SelectTimeout(r)

\* ==================================================== RateLimitMiddleware
\* new/another_new.go lines 151-208 (unnamed/part_006 lines 133-186 is the
\* same function): the closure keeps clients, a map from the client IP to
\* the times of its requests, and reads and writes it in every request
\* without a lock. All requests here come from one IP; times are seconds.

\* line 160: defaultLimit
DefaultLimit == 100

\* line 161: defaultWindow, time.Minute in seconds
DefaultWindow == 60

\* the clock of the limiter moves in steps of half a window
RateClockStep == DefaultWindow \div 2

\* numbers of requests of the IP admitted in the first second before the
\* requests of the run arrive
FillLevels == {0, DefaultLimit - 1, DefaultLimit}

\* lines 179-184: the requests not older than the window
ValidRequests(requests, t) ==
    SelectSeq(requests, LAMBDA q : t - q < DefaultWindow)

RateIdle ==
    /\ clientRequests = <<>>
    /\ rlAdmitted = <<>>
    /\ rlClock = 0
    /\ rlPc = [s \in RateReqs |-> "idle"]
    /\ rlNow = [s \in RateReqs |-> 0]
    /\ rlValid = [s \in RateReqs |-> <<>>]
    /\ rlOut = [s \in RateReqs |-> 0]

\* the limiter after k requests of the IP were served one after the other
\* in the first second (each of them admitted and recorded, k <= limit)
RateInit ==
    /\ \E k \in FillLevels :
          /\ clientRequests = [i \in 1..k |-> 0]
          /\ rlAdmitted = [i \in 1..k |-> 0]
    /\ rlClock = 0
    /\ rlPc = [s \in RateReqs |-> "idle"]
    /\ rlNow = [s \in RateReqs |-> 0]
    /\ rlValid = [s \in RateReqs |-> <<>>]
    /\ rlOut = [s \in RateReqs |-> 0]

\* time passes
RateClockAdvances ==
    /\ rlClock + RateClockStep <= MaxRateClock
    /\ rlClock' = rlClock + RateClockStep
    /\ UNCHANGED <<clientRequests, rlAdmitted, rlPc, rlNow, rlValid, rlOut>>
    /\ UNCHANGED <<orderVars, authVars, handlerVars, cancelVars, routeVars,
                   customerVars, timeoutVars>>

\* lines 164-184: time.Now() is read, the client is looked up and its
\* requests are filtered into the local validRequests
RateFilter(s) ==
    /\ rlPc[s] = "idle"
    /\ \A q \in RateReqs : q < s => rlPc[q] # "idle"
    /\ rlNow' = [rlNow EXCEPT ![s] = rlClock]
    /\ rlValid' = [rlValid EXCEPT ![s] = ValidRequests(clientRequests, rlClock)]
    /\ rlPc' = [rlPc EXCEPT ![s] = "store"]
    /\ UNCHANGED <<clientRequests, rlAdmitted, rlClock, rlOut>>
    /\ UNCHANGED <<orderVars, authVars, handlerVars, cancelVars, routeVars,
                   customerVars, timeoutVars>>

\* line 185: client.requests = validRequests
RateStore(s) ==
    /\ rlPc[s] = "store"
    /\ clientRequests' = rlValid[s]
    /\ rlPc' = [rlPc EXCEPT ![s] = "check"]
    /\ UNCHANGED <<rlAdmitted, rlClock, rlNow, rlValid, rlOut>>
    /\ UNCHANGED <<orderVars, authVars, handlerVars, cancelVars, routeVars,
                   customerVars, timeoutVars>>

\* lines 188-196: len(client.requests) >= client.limit is answered 429 with
\* c.Abort()
RateCheck(s) ==
    /\ rlPc[s] = "check"
    /\ IF Len(clientRequests) >= DefaultLimit
       THEN /\ rlOut' = [rlOut EXCEPT ![s] = 429]
            /\ rlPc' = [rlPc EXCEPT ![s] = "done"]
       ELSE /\ rlOut' = rlOut
            /\ rlPc' = [rlPc EXCEPT ![s] = "append"]
    /\ UNCHANGED <<clientRequests, rlAdmitted, rlClock, rlNow, rlValid>>
    /\ UNCHANGED <<orderVars, authVars, handlerVars, cancelVars, routeVars,
                   customerVars, timeoutVars>>

\* lines 199-206: the request is recorded and c.Next() runs the handler;
\* rlAdmitted is a ghost list of the times of the requests let through
RateAppend(s) ==
    /\ rlPc[s] = "append"
    /\ clientRequests' = Append(clientRequests, rlNow[s])
    /\ rlAdmitted' = Append(rlAdmitted, rlNow[s])
    /\ rlOut' = [rlOut EXCEPT ![s] = 200]
    /\ rlPc' = [rlPc EXCEPT ![s] = "done"]
    /\ UNCHANGED <<rlClock, rlNow, rlValid>>
    /\ UNCHANGED <<orderVars, authVars, handlerVars, cancelVars, routeVars,
                   customerVars, timeoutVars>>

RateNext ==
    \/ RateClockAdvances
    \/ \E s \in RateReqs : RateFilter(s)
    \/ \E s \in RateReqs : RateStore(s)
    \/ \E s \in RateReqs : RateCheck(s)
    \/ \E s \in RateReqs : RateAppend(s)

\* ------------------------------------------------------------------ Next
OrderNext ==
    \/ \E r \in OrderReqs, body \in Bodies : ReceiveOrder(r, body)
    \/ \E r \in OrderReqs : LookupCustomer(r)
    \/ \E r \in OrderReqs : WriteOrder(r)
    \/ \E r \in OrderReqs : Respond(r)
    \/ \E r \in OrderReqs : SendSMS(r)
    \/ \E r \in OrderReqs : SendSMSReturns(r)
    \/ \E id \in 0..AbsentId : ReceiveDelete(id)
    \/ DeleteLookup
    \/ DeleteExec

\* ================================================== request cancellation
\* The context of request r is cancelled while CreateOrder is between its
\* binding and the return of h.db.Create. CreateOrder (lines 28-88) calls
\* h.db.First and h.db.Create on h.db itself, not on
\* h.db.WithContext(c.Request.Context()), and has no select on ctx.Done():
\* no step of the handler reads ctxDone.
CancelRequest(r) ==
    /\ pc[r] \in {"lookup", "write"}
    /\ ~ctxDone[r]
    /\ ctxDone' = [ctxDone EXCEPT ![r] = TRUE]
    /\ UNCHANGED <<orderVars, authVars, handlerVars, routeVars, customerVars,
                   timeoutVars, rateVars>>

CancelNext ==
    \/ OrderNext
    \/ \E r \in OrderReqs : CancelRequest(r)

vars == <<orderVars, authVars, handlerVars, extraVars>>

\* no request is cancelled
CancelIdle == ctxDone = [r \in OrderReqs |-> FALSE]

ExtraIdle == CancelIdle /\ RouteIdle /\ CustomerIdle /\ TimeoutIdle
             /\ RateIdle

Init == OrderInit /\ AuthIdle /\ HandlerIdle /\ ExtraIdle

Next == OrderNext

Spec == Init /\ [][Next]_vars

\* the middleware alone, in front of an idle application
AuthStart == AuthInit /\ OrderInit /\ HandlerIdle /\ ExtraIdle

AuthSpec == AuthStart /\ [][AuthNext]_vars

\* the two verifiers of this file on the same requests
VerifySpec == AuthStart /\ [][VerifyNext]_vars

\* one attempt at the callback endpoint
CallbackStart == CallbackInit /\ GateIdle /\ OrderInit /\ ExtraIdle

CallbackSpec == CallbackStart /\ [][CallbackNext]_vars

\* the login endpoint and the token helper, nothing else in progress
LoginStart == LoginInit /\ GateIdle /\ OrderInit /\ ExtraIdle

LoginSpec == LoginStart /\ [][LoginNext]_vars

\* the order workflow with requests that may be cancelled under way
CancelSpec == Init /\ [][CancelNext]_vars

\* one request through the routes of main
RouteSpec == AuthStart /\ [][RouteNext]_vars

\* CreateCustomer requests served concurrently over one table
CustomerSpec == Init /\ [][CustomerNext]_vars

\* Login and ValidateToken of handlers.AuthHandler over a day and more
HandlersSpec == LoginStart /\ [][HandlersNext]_vars

\* a request served by either of the AuthMiddleware functions of the
\* repository
FormatSpec == AuthStart /\ [][FormatNext]_vars

\* requests under TimeoutMiddleware
TimeoutSpec == Init /\ [][TimeoutNext]_vars

\* requests of one IP under RateLimitMiddleware, served concurrently
RateStart ==
    /\ OrderInit /\ AuthIdle /\ HandlerIdle
    /\ CancelIdle /\ RouteIdle /\ CustomerIdle /\ TimeoutIdle
    /\ RateInit

RateSpec == RateStart /\ [][RateNext]_vars

\* The Go scheduler runs every runnable goroutine: a handler between two
\* store calls, and the notification goroutine up to its SendSMS call. No
\* fairness for the arrival of requests, nor for the return of SendSMS (the
\* http.Client of the SMS service has no timeout).
HandlerFairness ==
    \A r \in OrderReqs : /\ WF_vars(LookupCustomer(r))
                         /\ WF_vars(WriteOrder(r))
                         /\ WF_vars(Respond(r))

\* request handlers scheduled, the notification goroutine possibly never run
HandlerFairSpec == Spec /\ HandlerFairness

FairSpec == Spec /\ HandlerFairness /\ \A r \in OrderReqs : WF_vars(SendSMS(r))

\* =================================================================== claims
\* rows of the store written by request r
RowsOf(r) == {i \in 1..Len(orders) : orders[i].createdBy = r}

\* the handler of r has called h.db.Create
WriteAttempted(r) ==
    \/ pc[r] = "respond"
    \/ resp[r].status = 201
    \/ resp[r].message = "failed to create order"
    \/ RowsOf(r) # {}

IsErrorResponse(r) == resp[r].status \in {400, 404, 500}

RECURSIVE TotalCalls(_)
TotalCalls(S) ==
    IF S = {} THEN 0
    ELSE LET r == CHOOSE x \in S : TRUE
         IN Len(smsCalls[r]) + TotalCalls(S \ {r})

\* C1: the order write is attempted only after the customer lookup has
\* completed and found the customer of the request; a lookup that ends in
\* not-found or in an error is followed by no write.
C1_LookupPrecedesWrite ==
    \A r \in OrderReqs :
        /\ WriteAttempted(r) =>
               /\ cust[r] # ZeroCustomer
               /\ cust[r].id = req[r].customer_id
        /\ (resp[r].status = 404 \/ resp[r].message = "failed to verify customer")
               => RowsOf(r) = {}

C1_Witness ==
    \E r \in OrderReqs : RowsOf(r) # {} /\ cust[r] # ZeroCustomer

\* C2: every order row CreateOrder writes references a customer that exists
\* (is not deleted) in the store at the moment of the write, also when
\* DeleteCustomer runs concurrently.
C2_WriteReferencesExistingCustomer ==
    [][\A r \in OrderReqs :
          (pc[r] = "write" /\ Len(orders') > Len(orders) /\ RowsOf(r)' # RowsOf(r))
              => Found(req[r].customer_id)]_vars

\* C3: a CreateOrder call answered with an error (400, 404, 500) has written
\* no order row.
C3_ErrorLeavesOrdersUnchanged ==
    \A r \in OrderReqs : IsErrorResponse(r) => RowsOf(r) = {}

C3_Witness ==
    \E r \in OrderReqs :
        /\ resp[r].status = 500
        /\ resp[r].message = "failed to create order"
        /\ orders = <<>>

\* C4: a notification goroutine exists, and SendSMS is called, only for a
\* request whose order write succeeded; requests that failed validation, the
\* lookup or the write trigger no notification attempt.
C4_NotifyOnlyAfterWrite ==
    \A r \in OrderReqs :
        /\ (sms[r] # "none" \/ smsCalls[r] # <<>>) => RowsOf(r) # {}
        /\ IsErrorResponse(r) => (sms[r] = "none" /\ smsCalls[r] = <<>>)

C4_Witness ==
    \E r \in OrderReqs : smsCalls[r] # <<>> /\ RowsOf(r) # {}

\* C5: each created order gets at most one SendSMS call, addressed to the
\* phone of the customer the lookup returned, a failed call is not repeated;
\* the number of calls never exceeds the number of orders created and, with
\* the goroutines scheduled, eventually equals it.
C5_Safety ==
    /\ \A r \in OrderReqs :
          /\ Len(smsCalls[r]) <= Cardinality(RowsOf(r))
          /\ Len(smsCalls[r]) <= 1
          /\ \A i \in 1..Len(smsCalls[r]) :
                /\ smsCalls[r][i] = cust[r].phone
                /\ smsCalls[r][i] = CustomerPhones[req[r].customer_id]
    /\ TotalCalls(OrderReqs) <= Len(orders)

C5_ExactlyOneNotification ==
    /\ []C5_Safety
    /\ <>[](TotalCalls(OrderReqs) = Len(orders))

C5_Witness ==
    \E r \in OrderReqs :
        /\ sms[r] = "failed"
        /\ Len(smsCalls[r]) = 1
        /\ TotalCalls(OrderReqs) = Len(orders)

C7_FailureStep ==
    \A r \in OrderReqs :
        (sms[r] = "sending" /\ sms'[r] = "failed")
            => UNCHANGED <<orders, resp, pc, ord, smsCalls, customers>>

C7_FailureState ==
    \A r \in OrderReqs :
        sms[r] = "failed" =>
            /\ RowsOf(r) # {}
            /\ pc[r] = "done" => (resp[r].status = 201 /\ resp[r].order = ord[r])
            /\ \A i \in RowsOf(r) : orders[i].id = ord[r].id

C7_SMSFailureIsDiscarded == []C7_FailureState /\ [][C7_FailureStep]_vars

C7_Witness ==
    \E r \in OrderReqs :
        sms[r] = "failed" /\ resp[r].status = 201 /\ RowsOf(r) # {}

\* C8: a request is answered 400 exactly when its item is empty, its amount
\* is negative or its customer id is absent; every other request goes on to
\* the customer lookup.
ClaimedInvalid(b) == b.item = "" \/ b.amount < 0 \/ b.customer_id = 0

C8_RejectedExactlyWhenInvalid ==
    \A r \in OrderReqs :
        pc[r] # "idle" => ((resp[r].status = 400) <=> ClaimedInvalid(req[r]))

BearerForm(h) ==
    Len(h) = 3 /\ h[1] = Word("Bearer") /\ h[2] = Space /\ h[3].kind = "token"

VerifiesAgainst(tok, secret) ==
    tok.wellformed /\ tok.alg = "HS256" /\ secret # "" /\ tok.key = secret

NotExpiredAt(tok, t) == tok.exp = 0 \/ t < tok.exp

\* the request the claim lets through, against the secret in JWT_SECRET
Admissible ==
    /\ BearerForm(authHeader)
    /\ VerifiesAgainst(authHeader[3], jwtSecret)
    /\ NotExpiredAt(authHeader[3], verifiedAt)

\* the same, against the secret the middleware verifies with
AdmissibleByMiddleware ==
    /\ BearerForm(authHeader)
    /\ VerifiesAgainst(authHeader[3], MiddlewareSecret(jwtSecret))
    /\ NotExpiredAt(authHeader[3], verifiedAt)

\* C10 (as stated): the handler ran only for an admissible request, and a
\* request that is not admissible ended 401 with no handler run.
C10_HandlerOnlyWithValidToken ==
    /\ handlerRan => Admissible
    /\ (authPc \in {"aborted", "done"} /\ ~Admissible)
           => (authResp.status = 401 /\ ~handlerRan)

\* What the middleware does guarantee: the same gate with the secret of
\* lines 62-65, under which a token signed with "secret-key" passes when
\* JWT_SECRET is unset.
GateSoundForMiddlewareSecret ==
    /\ handlerRan => AdmissibleByMiddleware
    /\ (authPc \in {"aborted", "done"} /\ ~AdmissibleByMiddleware)
           => (authResp.status = 401 /\ ~handlerRan)

\* the spellings of an error code in the variants of the middleware
\* (internal/middleware/auth.go writes the words apart, new/another_new.go
\* joins them with "_")
Spellings(code) ==
    CASE code = "missing_token" -> {"missing_token", "missing token"}
      [] code = "invalid_token_format" ->
            {"invalid_token_format", "invalid token format"}
      [] code = "invalid_token" -> {"invalid_token", "invalid token"}
      [] code = "missing_code" -> {"missing_code", "missing code"}
      [] OTHER -> {code}

\* a header of the form "Bearer <value>": the scheme, one space, and one
\* value without a space in it
OneValueAfterBearer(h) ==
    /\ Len(h) >= 2
    /\ h[1] = Word("Bearer")
    /\ h[2] = Space
    /\ \A i \in 3..Len(h) : h[i] # Space

\* the request was answered before the handler
Answered == authPc \in {"aborted", "next", "done"}

Rejected(code) ==
    /\ authPc = "aborted"
    /\ authResp.status = 401
    /\ authResp.error \in Spellings(code)

FailsVerification(h, env, t) ==
    /\ OneValueAfterBearer(h)
    /\ ~AuthOutcome(h, env, t, t).next

\* C12: every request whose token fails verification gets the response body
\* that any other such request gets, whatever the reason of the failure.
C12_FailureReasonNotInBody ==
    (authPc = "aborted" /\ FailsVerification(authHeader, jwtSecret, verifiedAt))
       => \A h \in Headers :
             FailsVerification(h, jwtSecret, verifiedAt)
                => AuthOutcome(h, jwtSecret, verifiedAt, verifiedAt).resp
                      = authResp

\* C13: a request whose token has an expires-at at or before the time of
\* the check is answered 401 and its handler does not run, whatever key the
\* token was signed with.
HoldsExpiredToken ==
    \E i \in 1..Len(authHeader) :
       /\ authHeader[i].kind = "token"
       /\ authHeader[i].wellformed
       /\ authHeader[i].exp # 0
       /\ authHeader[i].exp <= verifiedAt

C13_ExpiredTokenRejected ==
    (Answered /\ HoldsExpiredToken)
       => (authPc = "aborted" /\ authResp.status = 401 /\ ~handlerRan)

\* a correctly signed token is rejected at the instant it expires
C13_Witness ==
    /\ authPc = "aborted"
    /\ BearerForm(authHeader)
    /\ VerifiesAgainst(authHeader[3], MiddlewareSecret(jwtSecret))
    /\ authHeader[3].exp = verifiedAt
    /\ authResp.message = <<"expired token">>

\* C14: the token of a Login response, given to ValidateToken under the same
\* JWT_SECRET, is accepted, and the claims returned are the ones issued:
\* email and subject are the email of the request, the name is "Seb", the
\* issuer "customer-order-api", the expiry the issued one.
C14_LoginRoundTrip ==
    (loginResp.status = 200 /\ vtToken = loginResp.token)
       => /\ vtOut.err = <<>>
          /\ vtOut.claims.email = loginReq.body.email
          /\ vtOut.claims.sub = loginReq.body.email
          /\ vtOut.claims.name = "Seb"
          /\ vtOut.claims.iss = "customer-order-api"
          /\ vtOut.claims.exp = loginReq.at.sec + TokenLifetime

C14_Witness ==
    /\ loginResp.status = 200
    /\ loginResp.token.kind = "token"
    /\ vtToken = loginResp.token
    /\ vtOut.err = <<>>
    /\ vtOut.claims.email = "test@example.com"

TokenIssued == loginResp.status = 200 /\ loginResp.token.kind = "token"

\* C16 (as stated): under the direct policy a Login call issues a token
\* exactly when email and password are non-empty and JWT_SECRET is set; an
\* empty email or password gives 400 invalid request, a missing secret 500
\* token generation failed.
C16_TokenIffNonEmptyAndSecret ==
    (~oidcConfig /\ loginCount > 0) =>
       LET nonEmpty == loginReq.body.email # "" /\ loginReq.body.password # ""
       IN /\ TokenIssued <=> (nonEmpty /\ jwtSecret # "")
          /\ ~nonEmpty => (loginResp.status = 400
                           /\ loginResp.error = "invalid request")
          /\ (nonEmpty /\ jwtSecret = "")
                => (loginResp.status = 500
                    /\ loginResp.error = "token generation failed")

\* the body is JSON, its email a well-formed address, its password not empty
WellFormedCredentials(body) ==
    body.json /\ IsEmail(body.email) /\ body.password # ""

\* C16 (amended): under the direct policy a Login call issues a token exactly
\* when the body holds a well-formed email address and a non-empty password
\* and JWT_SECRET is set; any other body gives 400 invalid request, a missing
\* secret 500 token generation failed, and neither issues a token.
C16_TokenIffWellFormedAndSecret ==
    (~oidcConfig /\ loginCount > 0) =>
       LET ok == WellFormedCredentials(loginReq.body)
       IN /\ TokenIssued <=> (ok /\ jwtSecret # "")
          /\ ~ok => (loginResp.status = 400
                     /\ loginResp.error = "invalid request"
                     /\ loginResp.token = NoToken)
          /\ (ok /\ jwtSecret = "")
                => (loginResp.status = 500
                    /\ loginResp.error = "token generation failed"
                    /\ loginResp.token = NoToken)

\* well-formed credentials and no secret: 500, no token
C16_Witness ==
    /\ ~oidcConfig
    /\ loginCount > 0
    /\ WellFormedCredentials(loginReq.body)
    /\ jwtSecret = ""
    /\ loginResp.status = 500
    /\ loginResp.token = NoToken

\* the request holds a well-formed token signed with another key than the
\* one the verifiers use
HoldsForeignToken ==
    \E i \in 1..Len(authHeader) :
       /\ authHeader[i].kind = "token"
       /\ authHeader[i].wellformed
       /\ authHeader[i].key # MiddlewareSecret(jwtSecret)

\* C15: a token signed with a key other than the secret in use is rejected
\* by AuthMiddleware (401, the handler does not run) and by ValidateToken
\* (an error and no claims), whatever else the token holds.
C15_ForeignKeyRejected ==
    /\ (Answered /\ HoldsForeignToken)
          => (authPc = "aborted" /\ authResp.status = 401 /\ ~handlerRan)
    /\ (vtToken.kind = "token" /\ vtToken.wellformed
        /\ vtToken.key # MiddlewareSecret(jwtSecret))
          => (vtOut.err # <<>> /\ vtOut.claims = NoClaims)

\* an unexpired HS256 token signed with another secret than the configured
\* one, refused by both
C15_Witness ==
    /\ jwtSecret = "test-secret"
    /\ BearerForm(authHeader)
    /\ authHeader[3].wellformed
    /\ authHeader[3].alg = "HS256"
    /\ authHeader[3].key = "wrong-secret"
    /\ authHeader[3].exp = 0
    /\ authPc = "aborted"
    /\ authResp.message = <<"signature is invalid">>
    /\ vtToken = authHeader[3]
    /\ vtOut.err = <<"signature is invalid">>

\* C17 (as stated): with no JWT_SECRET, Callback issues no token, the
\* middleware lets no request through and ValidateToken accepts no token.
C17_NoDefaultSecret ==
    jwtSecret = "" =>
       /\ cbResp.token = NoToken
       /\ authPc # "next" /\ ~handlerRan
       /\ vtToken.kind = "token" => vtOut.err # <<>>

\* C18 (as stated): with OIDC configured every Login call is answered by a
\* redirect carrying a state value and no token; without it Login never
\* redirects and Callback never issues a token.
C18_PolicyFixedAtConstruction ==
    /\ (oidcConfig /\ loginCount > 0)
          => (loginResp.status = 302 /\ loginResp.state # 0
              /\ loginResp.token = NoToken)
    /\ ~oidcConfig
          => (loginResp.status # 302 /\ issuedStates = <<>>
              /\ cbResp.token = NoToken)

\* calls of one operation of the provider recorded in the trace
Attempts(ok, failed) ==
    Cardinality({i \in 1..Len(cbTrace) : cbTrace[i] \in {ok, failed}})

CallbackFailed(status, code) ==
    /\ cbResp.status = status
    /\ cbResp.error \in Spellings(code)
    /\ cbResp.token = NoToken

C19_State ==
    /\ cbResp.token # NoToken
          => (cbTrace = <<"oidcConfig", "code", "Exchange", "Verify">>
              /\ cbResp.status = 200)
    /\ cbPc = "done" =>
          /\ ~oidcConfig => CallbackFailed(400, "oidc_not_configured")
          /\ (oidcConfig /\ cbQuery.code = "")
                => CallbackFailed(400, "missing_code")
          /\ (Len(cbTrace) > 0 /\ cbTrace[Len(cbTrace)] = "Exchange failed")
                => CallbackFailed(500, "token_exchange_failed")
          /\ (Len(cbTrace) > 0 /\ cbTrace[Len(cbTrace)] = "Verify failed")
                => CallbackFailed(401, "invalid_id_token")
          /\ cbResp.token = NoToken => cbResp.status \in {400, 401, 500}
    /\ Attempts("Exchange", "Exchange failed") <= 1
    /\ Attempts("Verify", "Verify failed") <= 1

C19_Step ==
    cbPc = "done" => (cbPc' = "done" /\ cbResp' = cbResp /\ cbTrace' = cbTrace)

C20_StateValuesDistinct ==
    \A i, j \in 1..Len(issuedStates) :
       i # j => issuedStates[i].state # issuedStates[j].state

\* C21: a CreateOrder request whose context was cancelled (or timed out)
\* before the order write completed has created no order row and has
\* started no notification.
C21_CancelAborts ==
    \A r \in OrderReqs :
        ctxDone[r] => /\ RowsOf(r) = {}
                      /\ sms[r] = "none"
                      /\ smsCalls[r] = <<>>

\* C22: a handler of a route under /api/v1 or of /auth/userinfo runs only
\* after AuthMiddleware let the request through; the only handlers that run
\* for a request AuthMiddleware did not let through are those of /health,
\* /auth/login and /auth/callback.
OpenPaths == {<<"health">>, <<"auth", "login">>, <<"auth", "callback">>}

GatePassed == authPc = "next" /\ authCtx.exists

C23_UniqueCodes ==
    /\ \A i, j \in 1..Len(custRows) :
          custRows[i].code = custRows[j].code => i = j
    /\ \A s \in CreateReqs :
          (/\ ccPc[s] = "done"
           /\ ccResp[s].status # 201
           /\ CodeStored(ccReq[s].code))
              => (ccResp[s].status = 409 /\ ccResp[s].error = "customer_exists")

\* C24: when AuthMiddleware lets a request through, the context holds
\* "claims", "user_email" and "user_sub" equal to the claims, the e-mail and
\* the subject of the token of the request, and the handler behind the
\* middleware reads those values.
TokenOfRequest == authHeader[Len(authHeader)]

C26_TokenExpiresAfterADay ==
    [][(/\ loginResp.status = 200
        /\ vtToken' = loginResp.token
        /\ <<vtToken, vtOut>>' # <<vtToken, vtOut>>)
          => (vtOut'.err = <<>> <=> now < loginReq.at.sec + TokenLifetime)]_vars

\* C25: a header that is present and is not the scheme "Bearer", one space
\* and exactly one value (no value, or more than one value after the
\* scheme) is answered 401 invalid_token_format: it never reaches token
\* verification.
ExactlyOneValue(h) ==
    /\ Len(h) = 3
    /\ h[1] = Word("Bearer")
    /\ h[2] = Space
    /\ h[3] # Space

C25_FormatCheckExact ==
    (Answered /\ authHeader # <<>> /\ ~ExactlyOneValue(authHeader))
        => Rejected("invalid_token_format")

\* C27: under TimeoutMiddleware at most one response is written per request:
\* after the 408 the handler's goroutine writes nothing to the response,
\* and after the handler's response no 408 is written.
C27_OneResponsePerRequest ==
    \A r \in TimeoutReqs : Len(tmWrites[r]) <= 1

\* C28: the goroutine that runs the handler is never left at its send on
\* done with no receiver to come: the middleware, whose select is the only
\* receive, has not returned while the goroutine waits to send.
C28_SendAlwaysReceived ==
    \A r \in TimeoutReqs : ~(goPc[r] = "send" /\ tmPc[r] = "returned")

\* C29: of the requests of one IP that RateLimitMiddleware lets through to
\* the handler, at most 100 fall within any window of one minute, also when
\* requests are served concurrently; a request that finds 100 requests in
\* the window is answered 429 and is not among them.
AdmittedWithin(t) ==
    {i \in 1..Len(rlAdmitted) :
        rlAdmitted[i] >= t /\ rlAdmitted[i] - t < DefaultWindow}

C29_AtMostLimitPerWindow ==
    \A i \in 1..Len(rlAdmitted) :
        Cardinality(AdmittedWithin(rlAdmitted[i])) <= DefaultLimit

\* C30: every stored order refers to a stored customer: the customer_id of
\* each order row is the id of a customer row that is not deleted.
C30_OrdersReferenceStoredCustomers ==
    \A i \in 1..Len(orders) :
        /\ orders[i].customer_id \in CustIds
        /\ ~customers[orders[i].customer_id].deleted

====
